---- MODULE Spec2Model ----
(***************************************************************************)
(* A model of okx_market_sentry: the price-delta alarm pipeline (price     *)
(* window store, ticker poller, analyzer, notifier back-ends), the candle  *)
(* streamer and the Donchian strategy engine with its signal detector.     *)
(*                                                                         *)
(* Times of the alarm pipeline are whole minutes.  Prices are integers and *)
(* a percentage is kept as the exact fraction num/den, so that comparisons *)
(* with the threshold are those of the real numbers.                       *)
(***************************************************************************)
EXTENDS Integers, Sequences, FiniteSets, TLC

\* ------------------------------------------------------------------ bounds
\* The alarm pipeline's clock stops here.
MaxTime == 66
\* Within an hour the clock is followed up to this minute.
MaxMinute == 6
\* The streamer's clock stops here.
MaxClock == 2
\* The streamer is followed through this many dials that succeed.
MaxConns == 2
\* Capacity of the streamer's output channel in the model (1000 in NewClient).
KlineChanCap == 2
\* Capacity of the engine's candle channel in the model (10000 in
\* NewDonchianEngine).
EngineChanCap == 1
\* Capacity of the engine's signal channel in the model (1000 in
\* NewDonchianEngine).
SignalChanCap == 1
\* klineProcessor goroutines in the model (5 in startWorkers).
WorkerCount == 2

\* Goroutines calling StateManager.Store in the model.
StoreCallers == 2
\* Calls of Store the callers make between them.
MaxPuts == 3
\* Analysis runs the scheduler is followed through.
MaxRuns == 2
\* The clock of the store's callers stops here.
MaxStoreClock == 3
\* Minutes the store's callers see pass when the window's age is outlived.
MaxTrimClock == 6
\* How many times the poller fetches: at once and on ticks of its ticker.
MaxPolls == 3
\* Signals of one symbol and day that are persisted, one goroutine each.
MaxPersist == 2
\* Streamed candles of a symbol the seeded engine is followed through.
MaxLive == 2
\* Candles handed to the Donchian calculator, and the prices they move in.
MaxCandles == 3
MaxPrice == 3

\* ------------------------------------------------------- program constants
\* alert.threshold (percent), the default of the configuration.
Threshold == 3
\* StateManager.windowSize, minutes.
WindowSize == 5
\* FindPriceAroundTime's accepted drift, minutes.
Tolerance == 2
\* fetch.interval, the poller's sampling interval, minutes (the default).
SamplingInterval == 1
\* recordAlert prunes ledger entries older than this many minutes.
PruneAge == 60
\* WebSocketConfig.MaxReconnectAttempts, as App.startDonchianStrategy sets it.
MaxReconnectAttempts == 10
\* Capacity of Client.reconnectChan.
ReconnectChanCap == 1
\* parseIntervalToDuration's answer for an interval it does not know, minutes.
DefaultDuration == 5
\* The ATR values calculateATRSlope, isATRInLowestQuartile and
\* GetATRPercentile look back over, and getRequiredBars' margin.
ATRSlopeWindow == 45
\* buildBatchMarkdownContent and buildBatchHTMLContent list this many alerts
\* of a group at most.
DingTalkMaxShow == 8
PushPlusMaxShow == 10
\* getTickers gives up after this many attempts.
MaxAttempts == 3
\* updateKlineBuffer keeps this many candles of a symbol.
MaxBuffer == 200

\* ------------------------------------------------------------ input sets
AlarmSymbols == {"BTC-USDT", "ETH-USDT"}
\* What one poll may report: the last price of every ticker.
Tickers == {[s \in AlarmSymbols |-> 100],
            [s \in AlarmSymbols |-> IF s = "BTC-USDT" THEN 104 ELSE 100],
            [s \in AlarmSymbols |-> 104],
            [s \in AlarmSymbols |-> IF s = "BTC-USDT" THEN 103 ELSE 104]}
\* alert.monitor_period, minutes: a short period and one over an hour.
MonitorPeriods == {3, 120}
\* The clock is observed every three minutes, or an hour later.
TickSteps == {3, 60}
Backends == {"console", "dingtalk", "pushplus"}
\* What the HTTP transport of a remote back-end does with one message.
Outcomes == {"ok", "transport_error", "api_error"}
\* strategy.donchian.symbols and strategy.donchian.interval
SymbolLists == {<<"BTC-USDT">>, <<"BTC-USDT", "ETH-USDT">>}
Intervals == {"1m"}
\* Every instrument the streamer may be asked for.
WsSymbols == {"BTC-USDT", "ETH-USDT"}
\* Open times the exchange stamps streamed rows with.
RowTimes == {0}
\* A streamed row of a closed candle opens at its low and closes at its high;
\* a row of a candle still forming has one price throughout.
ClosedOpen == 100
ClosedPrice == 104
FormingPrice == 102

NoTime == -1
NoPoint == [price |-> 0, timestamp |-> NoTime]
NoKline == [symbol |-> "", openTime |-> NoTime, closeTime |-> NoTime,
            open |-> 0, high |-> 0, low |-> 0, close |-> 0, volume |-> 0,
            interval |-> ""]
NoMessage == [instId |-> "", channel |-> [prefix |-> "", interval |-> ""],
              data |-> <<>>]
NoAlert == [symbol |-> "", currentPrice |-> 0, pastPrice |-> 0,
            changePercent |-> [num |-> 0, den |-> 1],
            alertTime |-> NoTime, monitorPeriod |-> 0]
\* DetectSignal's nil.
NoSignal == [symbol |-> "", signalType |-> "", price |-> 0, volume |-> 0,
             volumeRatio |-> [kind |-> "", value |-> [num |-> 0, den |-> 1]],
             donchianUpper |-> 0,
             atrValue |-> [num |-> 0, den |-> 1], consolidationBars |-> 0,
             signalStrength |-> [num |-> 0, den |-> 1], signalTime |-> NoTime]

VARIABLES
    now,            \* wall clock, minutes
    monitorPeriod,  \* AnalysisEngine.monitorPeriod
    backend,        \* which notifier.Interface implementation was selected
    priceHistory,   \* StateManager.priceHistory: symbol -> CircularQueue.data
    alertHistory,   \* AnalysisEngine.alertHistory: symbol -> last alert time
    runPc,          \* AnalyzeAll: "idle", "fanout", "send"
    symPc,          \* per-symbol goroutine of AnalyzeAll
    current,        \* analyzeSymbol's current, per goroutine
    past,           \* analyzeSymbol's past, per goroutine
    seen,           \* what shouldAlert read: [last, at]
    verdict,        \* how analyzeSymbol ended, per goroutine
    pending,        \* the alert a goroutine holds before the fan-in append
    alerts,         \* AnalyzeAll's alerts slice
    calls,          \* notifier calls of the run, in order
    alertLog,       \* every alert time per symbol, in order of construction
    failedAt        \* per symbol, the time of its latest alert whose dispatch
                    \* returned an error to the analyzer

VARIABLES
    wsConfig,       \* [symbols, interval] handed to Subscribe by the engine
    wsNow,          \* the streamer's clock, minutes
    conn,           \* Client.conn: 0 is nil, else the id of a dialled connection
    isConnected,    \* Client.isConnected
    dialled,        \* how many dials have succeeded
    dead,           \* connections that failed or were closed
    wire,           \* per connection, the subscribe messages written to it
    reconnectChan,  \* Client.reconnectChan: tokens queued (capacity 1)
    klineChan,      \* Client.klineChan
    latestKlines,   \* Client.latestKlines
    symbols,        \* Client.symbols
    interval,       \* Client.interval
    tickers,        \* every time.Ticker made by startIntervalProcessor
    processors,     \* the goroutines of startIntervalProcessor
    startPc,        \* DonchianEngine.Start: "new", "reading", "failed"
    readPc,         \* readLoop: "top", "reading"
    readConn,       \* readLoop's local conn
    message,        \* readLoop's local message, the last one read
    rcPc,           \* reconnectLoop: "wait", "subscribe", "resend", "stopped"
    reconnectAttempts,  \* reconnectLoop's local counter
    failedInARow,   \* dials of reconnectLoop that failed since its last success
    placed          \* per symbol, candles placed on klineChan in the running interval

VARIABLES
    config,         \* DonchianEngine.config, DonchianSignalDetector.config
    klineBuffer,    \* DonchianEngine.klineBuffer: symbol -> candles
    engineChan,     \* DonchianEngine.klineChan
    signalChan,     \* DonchianEngine.signalChan
    workerPc,       \* klineProcessor goroutines: "idle", "update", "detect", "send"
    workerKline,    \* the candle a klineProcessor goroutine is processing
    workerSignal,   \* the signal DetectSignal returned to it
    processedKlines,    \* DonchianEngine.processedKlines
    detectedSignals,    \* DonchianEngine.detectedSignals
    savedSignals    \* what processSignal handed to the database, in order

VARIABLES
    snapshot,       \* the klines a caller hands to DetectSignal
    detected,       \* what DetectSignal returned
    detectPc        \* the caller: "ready", "done"

VARIABLES
    storeMutex,     \* StateManager.mutex: 0 is free, else the caller holding it
    storePc,        \* callers of Store: "idle", "lock", "create", "add"
    storeArg,       \* Store's arguments, per caller
    sawNil,         \* whether the caller found sm.priceHistory[symbol] nil
    putCount,       \* calls of Store made so far
    putLog,         \* the calls of Store that have returned
    pairResult      \* what the last GetPriceData saw and returned

VARIABLES
    schedPc,        \* Scheduler.Start: "new", "first", "top", "run", "sleep",
                    \* "returned", "panicked"
    cancelled,      \* ctx.Done() is closed
    schedNow,       \* the scheduler's wall clock, seconds since a midnight
    schedPeriod,    \* Scheduler.monitorPeriod, seconds
    nextTime,       \* what calculateNextKlineTime returned last
    calcAt,         \* the time.Now() of that computation
    runs,           \* calls of runAnalysis so far
    ranAt,          \* the times the calls of runAnalysis began at
    fetcherStarted  \* go s.dataFetcher.Start(ctx) was issued

VARIABLES
    stratPc,        \* startDonchianStrategy: "new", "history", "connect",
                    \* "subscribe", "waiting", "closing", "draining",
                    \* "closedb", "returned", "failed"
    rootLive,       \* DonchianEngine.ctx exists and is not cancelled
    dbOpen,         \* DonchianEngine.dbManager holds an open database handle
    wsOpen,         \* the streaming client holds an open connection
    engineTasks,    \* the goroutines of startWorkers: "none", "running",
                    \* "exited", "gone"
    stopLog,        \* the steps DonchianEngine.Stop has performed, in order
    process         \* the operating-system process: "alive", "exited"

VARIABLES
    pollPc,         \* DataFetcher.Start: "new", "attempt", "wait", "stopped"
    attempt,        \* getTickers' loop variable
    httpCalls,      \* calls of httpClient.Get made by the running getTickers
    tickLog,        \* how each fetchAndStore ended: "failed", "stored"
    storedBefore    \* priceHistory as fetchAndStore found it

VARIABLES
    batchIn,        \* the alerts handed to a notifier's SendBatchAlerts
    rendered        \* the bodies that call built, in order

VARIABLES
    perfRow,        \* the strategy_performance row of one symbol and day
    signalRows,     \* the trading_signals rows of that symbol and day
    persistPc,      \* processSignal's goroutines: "none", "save", "read",
                    \* "write", "done", "error"
    persistSignal,  \* the signal such a goroutine persists
    persistRead,    \* the row its UpdateStrategyPerformance read
    candleTask      \* the goroutine persistKlineData started: "none",
                    \* "saving", "done"

VARIABLES
    donchianIn,     \* the candles, length and offset a channel is asked for
    donchianOut     \* the channel and the breakout computed from them

engineVars == <<config, klineBuffer, engineChan, signalChan, workerPc,
                workerKline, workerSignal, processedKlines, detectedSignals,
                savedSignals>>

detectorVars == <<snapshot, detected, detectPc>>

wsVars == <<wsConfig, wsNow, conn, isConnected, dialled, dead, wire, reconnectChan,
            klineChan, latestKlines, symbols, interval, tickers, processors,
            startPc, readPc, readConn, message, rcPc, reconnectAttempts,
            failedInARow, placed>>

alarmVars == <<now, monitorPeriod, backend, priceHistory,
               alertHistory, runPc, symPc, current, past, seen, verdict,
               pending, alerts, calls, alertLog, failedAt>>

storeVars == <<storeMutex, storePc, storeArg, sawNil, putCount, putLog,
               pairResult>>

schedVars == <<schedPc, cancelled, schedNow, schedPeriod, nextTime, calcAt,
               runs, ranAt, fetcherStarted>>

appVars == <<stratPc, rootLive, dbOpen, wsOpen, engineTasks, stopLog, process>>

pollVars == <<pollPc, attempt, httpCalls, tickLog, storedBefore>>

renderVars == <<batchIn, rendered>>

persistVars == <<perfRow, signalRows, persistPc, persistSignal, persistRead,
                 candleTask>>

donchianVars == <<donchianIn, donchianOut>>

\* What an action of the alarm pipeline leaves alone.
beyondAlarm == <<wsVars, engineVars, detectorVars, storeVars, schedVars,
                 appVars, pollVars, renderVars, persistVars, donchianVars>>
\* What an action of the streamer leaves alone.
beyondStreamer == <<alarmVars, engineVars, detectorVars, storeVars, schedVars,
                    appVars, pollVars, renderVars, persistVars, donchianVars>>
\* What an action of the engine leaves alone, the streamer's output channel
\* apart.
beyondEngine == <<alarmVars, detectorVars, storeVars, schedVars, appVars, pollVars, renderVars, persistVars, donchianVars>>

vars == <<alarmVars, wsVars, engineVars, detectorVars, storeVars, schedVars,
          appVars, pollVars, renderVars, persistVars, donchianVars>>

\* ------------------------------------------------------------- helpers
Abs(x) == IF x < 0 THEN -x ELSE x
Last(q) == q[Len(q)]
Range(q) == {q[i] : i \in 1..Len(q)}

\* ------------------------------------------------- price window store
\* CircularQueue.Add: append, then drop the prefix before the first entry
\* that is After(cutoff); when no entry is after the cutoff nothing is cut.
QueueAdd(data, point, t, maxAge) ==
    LET appended == Append(data, point)
        cutoff == t - maxAge
        after == {i \in 1..Len(appended) : appended[i].timestamp > cutoff}
        newStart == IF after = {} THEN 1
                    ELSE CHOOSE i \in after : \A j \in after : i <= j
    IN SubSeq(appended, newStart, Len(appended))

\* CircularQueue.GetLatest
GetLatest(data) == IF Len(data) = 0 THEN NoPoint ELSE data[Len(data)]

\* CircularQueue.FindPriceAroundTime: the first entry of minimal distance
\* to the target, refused when that distance is over the tolerance.
FindPriceAroundTime(data, targetTime) ==
    IF Len(data) < 2 THEN NoPoint
    ELSE LET diff(i) == Abs(targetTime - data[i].timestamp)
             best == CHOOSE i \in 1..Len(data) :
                        /\ \A j \in 1..Len(data) : diff(i) <= diff(j)
                        /\ \A j \in 1..(i - 1) : diff(j) > diff(i)
         IN IF diff(best) > Tolerance THEN NoPoint ELSE data[best]

\* StateManager.GetPriceData: <<current, past>>
GetPriceData(symbol, t) ==
    LET queue == priceHistory[symbol]
    IN IF Len(queue) = 0 THEN <<NoPoint, NoPoint>>
       ELSE <<GetLatest(queue), FindPriceAroundTime(queue, t - WindowSize)>>

\* StateManager.GetAllSymbols: the symbols that own a queue.
GetAllSymbols == {s \in AlarmSymbols : Len(priceHistory[s]) > 0}

\* StateManager.Store, as a function on the map.
StoreInto(hist, symbol, price, timestamp, t) ==
    [hist EXCEPT ![symbol] =
        QueueAdd(@, [price |-> price, timestamp |-> timestamp], t, WindowSize)]

\* ------------------------------------------- the store under its callers
Callers == 1..StoreCallers
\* alert.monitor_period for the store's callers: the default and one over an
\* hour.
StorePeriods == {5, 120}
\* How far behind the clock the timestamp handed to Store may be, minutes:
\* none, under the window's age, over it.
PutLags == {0, 2, 6}
\* The price a caller stores, its own.
PutPrice(c) == 100 + c
NoArg == [symbol |-> "", price |-> 0, timestamp |-> NoTime]
\* No GetPriceData yet.
NoPair == [symbol |-> "", at |-> NoTime, current |-> NoPoint, past |-> NoPoint,
           window |-> <<>>, puts |-> {}]

\* A variant of MutexFree under which the lock excludes nobody.
MutexFreeAlways(holder) == TRUE

\* sm.mutex can be taken: nobody holds it.
MutexFree(holder) == holder = 0

\* Nobody has called the store.
StoreAtRest ==
    /\ storeMutex = 0
    /\ storePc = [c \in Callers |-> "idle"]
    /\ storeArg = [c \in Callers |-> NoArg]
    /\ sawNil = [c \in Callers |-> FALSE]
    /\ putCount = 0
    /\ putLog = {}
    /\ pairResult = NoPair

restOfAlarm == <<monitorPeriod, backend, alertHistory, runPc, symPc, current,
                 past, seen, verdict, pending, alerts, calls, alertLog, failedAt>>
beyondStore == <<wsVars, engineVars, detectorVars, schedVars, appVars, pollVars, renderVars, persistVars, donchianVars>>

\* A caller invokes Store(symbol, price, timestamp) and waits for sm.mutex.
StoreCall(c) ==
    /\ storePc[c] = "idle"
    /\ putCount < MaxPuts
    /\ \E s \in AlarmSymbols, lag \in PutLags :
          /\ now - lag >= 0
          /\ storeArg' = [storeArg EXCEPT ![c] =
                [symbol |-> s, price |-> PutPrice(c), timestamp |-> now - lag]]
    /\ storePc' = [storePc EXCEPT ![c] = "lock"]
    /\ putCount' = putCount + 1
    /\ UNCHANGED <<now, priceHistory, storeMutex, sawNil, putLog, pairResult>>
    /\ UNCHANGED <<restOfAlarm, beyondStore>>

\* Store: sm.mutex.Lock() returns and sm.priceHistory[symbol] == nil is read.
StoreLock(c) ==
    /\ storePc[c] = "lock"
    /\ MutexFree(storeMutex)
    /\ storeMutex' = c
    /\ sawNil' = [sawNil EXCEPT ![c] = Len(priceHistory[storeArg[c].symbol]) = 0]
    /\ storePc' = [storePc EXCEPT ![c] = "create"]
    /\ UNCHANGED <<now, priceHistory, storeArg, putCount, putLog, pairResult>>
    /\ UNCHANGED <<restOfAlarm, beyondStore>>

\* Store: a queue is made for the symbol when none was found.
StoreCreate(c) ==
    /\ storePc[c] = "create"
    /\ priceHistory' = IF sawNil[c]
                       THEN [priceHistory EXCEPT ![storeArg[c].symbol] = <<>>]
                       ELSE priceHistory
    /\ storePc' = [storePc EXCEPT ![c] = "add"]
    /\ UNCHANGED <<now, storeMutex, storeArg, sawNil, putCount, putLog,
                   pairResult>>
    /\ UNCHANGED <<restOfAlarm, beyondStore>>

\* Store: the point is added to the symbol's queue and the deferred Unlock
\* runs as Store returns.
StoreAdd(c) ==
    /\ storePc[c] = "add"
    /\ priceHistory' = StoreInto(priceHistory, storeArg[c].symbol,
                                 storeArg[c].price, storeArg[c].timestamp, now)
    /\ storeMutex' = 0
    /\ putLog' = putLog \cup {storeArg[c]}
    /\ storeArg' = [storeArg EXCEPT ![c] = NoArg]
    /\ sawNil' = [sawNil EXCEPT ![c] = FALSE]
    /\ storePc' = [storePc EXCEPT ![c] = "idle"]
    /\ UNCHANGED <<now, putCount, pairResult>>
    /\ UNCHANGED <<restOfAlarm, beyondStore>>

\* A caller runs GetPriceData(symbol) under the read lock.
CallGetPriceData(s) ==
    /\ MutexFree(storeMutex)
    /\ pairResult' = [symbol |-> s, at |-> now,
                      current |-> GetPriceData(s, now)[1],
                      past |-> GetPriceData(s, now)[2],
                      window |-> priceHistory[s],
                      puts |-> {e \in putLog : e.symbol = s}]
    /\ UNCHANGED <<now, priceHistory, storeMutex, storePc, storeArg, sawNil,
                   putCount, putLog>>
    /\ UNCHANGED <<restOfAlarm, beyondStore>>

\* A minute passes for the store's callers.
StoreClock ==
    /\ now < MaxStoreClock
    /\ now' = now + 1
    /\ UNCHANGED <<priceHistory, storeVars>>
    /\ UNCHANGED <<restOfAlarm, beyondStore>>

\* A minute passes for the store's callers, up to past the window's age.
TrimClock ==
    /\ now < MaxTrimClock
    /\ now' = now + 1
    /\ UNCHANGED <<priceHistory, storeVars>>
    /\ UNCHANGED <<restOfAlarm, beyondStore>>

\* -------------------------------------------------------------- scheduler
\* alert.monitor_period for the scheduler, seconds: 30s, 1m, 90s, the default
\* 5m, 7m, 2h.
SchedPeriods == {30, 60, 90, 300, 420, 7200}
\* Wall-clock times Start may find, seconds since a midnight: 00:04:30,
\* 00:05:00, 00:58:10, 23:59:59.
StartTimes == {270, 300, 3490, 86399}
\* How long a run of runAnalysis may take, seconds: a second, or past the
\* next slot of a five-minute period.
RunDurations == {1, 330}
\* No instant computed.
NoInstant == [ok |-> TRUE, at |-> NoTime]
\* A run-time panic (integer divide by zero).
Panic == [ok |-> FALSE, at |-> NoTime]

\* Scheduler.calculateNextKlineTime at wall-clock time t with monitorPeriod
\* period: int(period.Minutes()) truncates to whole minutes, the integer
\* division by it panics when it is 0, and time.Date normalises hour 24 to
\* the next day.
CalculateNextKlineTime(t, period) ==
    LET periodMinutes == period \div 60
        currentMinute == (t \div 60) % 60
        hour == (t \div 3600) % 24
        midnight == t - (t % 86400)
    IN IF periodMinutes = 0 THEN Panic
       ELSE LET nextAlignedMinute ==
                    ((currentMinute \div periodMinutes) + 1) * periodMinutes
            IN IF nextAlignedMinute >= 60
               THEN [ok |-> TRUE, at |-> midnight + (hour + 1) * 3600]
               ELSE [ok |-> TRUE,
                     at |-> midnight + hour * 3600 + nextAlignedMinute * 60]

\* A variant of CtxDone that never sees the cancellation.
CtxDoneNever(c) == FALSE

\* <-ctx.Done() is ready.
CtxDone(c) == c

\* <-time.After(waitDuration) is ready: the wait until nextTime is over.
TimerReady == schedNow >= nextTime.at

\* NewApp: no engine exists, the process runs.
AppAtRest ==
    /\ stratPc = "new"
    /\ rootLive = FALSE
    /\ dbOpen = FALSE
    /\ wsOpen = FALSE
    /\ engineTasks = "none"
    /\ stopLog = <<>>
    /\ process = "alive"

\* No strategy_performance row.
NoRow == [found |-> FALSE, total |-> 0, long |-> 0, short |-> 0,
          avg |-> [num |-> 0, den |-> 1]]

\* No channel asked for.
NoChannelCall == [klines |-> <<>>, length |-> 0, offset |-> 0]
NoChannelResult == [channel |-> [ok |-> FALSE, upper |-> 0, lower |-> 0],
                    breakout |-> "none"]
DonchianAtRest ==
    /\ donchianIn = NoChannelCall
    /\ donchianOut = NoChannelResult

\* An empty database, no signal processed.
PersistAtRest ==
    /\ perfRow = NoRow
    /\ signalRows = <<>>
    /\ persistPc = [t \in 1..MaxPersist |-> "none"]
    /\ persistSignal = [t \in 1..MaxPersist |-> [signalType |-> "", strength |-> 0]]
    /\ persistRead = [t \in 1..MaxPersist |-> NoRow]
    /\ candleTask = "none"

\* No batch handed to a notifier.
RenderAtRest ==
    /\ batchIn = <<>>
    /\ rendered = <<>>

\* NewDataFetcher: Start not called.
PollerAtRest ==
    /\ pollPc = "new"
    /\ attempt = 0
    /\ httpCalls = 0
    /\ tickLog = <<>>
    /\ storedBefore = [s \in AlarmSymbols |-> <<>>]

\* The scheduler before Start.
SchedulerAtRest ==
    /\ schedPc = "new"
    /\ cancelled = FALSE
    /\ schedNow = 0
    /\ schedPeriod = 0
    /\ nextTime = NoInstant
    /\ calcAt = NoTime
    /\ runs = 0
    /\ ranAt = <<>>
    /\ fetcherStarted = FALSE
    /\ AppAtRest
    /\ PollerAtRest
    /\ RenderAtRest
    /\ PersistAtRest
    /\ DonchianAtRest

beyondScheduler == <<alarmVars, wsVars, engineVars, detectorVars, storeVars,
                     appVars, pollVars, renderVars, persistVars, donchianVars>>

\* Scheduler.Start up to its select: the poller's goroutine is started, the
\* first aligned instant is computed and waited for.
SchedStart ==
    /\ schedPc = "new"
    /\ fetcherStarted' = TRUE
    /\ nextTime' = CalculateNextKlineTime(schedNow, schedPeriod)
    /\ calcAt' = schedNow
    /\ schedPc' = IF nextTime'.ok THEN "first" ELSE "panicked"
    /\ UNCHANGED <<cancelled, schedNow, schedPeriod, runs, ranAt>>
    /\ UNCHANGED beyondScheduler

\* Start's select takes <-ctx.Done(): Start returns.
FirstCancel ==
    /\ schedPc = "first"
    /\ CtxDone(cancelled)
    /\ schedPc' = "returned"
    /\ UNCHANGED <<cancelled, schedNow, schedPeriod, nextTime, calcAt, runs, ranAt,
                   fetcherStarted>>
    /\ UNCHANGED beyondScheduler

\* Start's select takes <-time.After(waitDuration): startKlineAlignedAnalysis
\* is entered.
FirstWake ==
    /\ schedPc = "first"
    /\ TimerReady
    /\ schedPc' = "top"
    /\ UNCHANGED <<cancelled, schedNow, schedPeriod, nextTime, calcAt, runs, ranAt,
                   fetcherStarted>>
    /\ UNCHANGED beyondScheduler

\* startKlineAlignedAnalysis, the select at the head of the loop: it returns
\* when <-ctx.Done() is ready, and by default runAnalysis begins.
LoopTop ==
    /\ schedPc = "top"
    /\ IF CtxDone(cancelled)
       THEN /\ schedPc' = "returned"
            /\ UNCHANGED <<runs, ranAt>>
       ELSE /\ runs < MaxRuns
            /\ runs' = runs + 1
            /\ ranAt' = Append(ranAt, schedNow)
            /\ schedPc' = "run"
    /\ UNCHANGED <<cancelled, schedNow, schedPeriod, nextTime, calcAt,
                   fetcherStarted>>
    /\ UNCHANGED beyondScheduler

\* runAnalysis returns after some time; the next instant is computed from
\* the clock as it then stands and waited for.
RunEnd ==
    /\ schedPc = "run"
    /\ \E d \in RunDurations :
          /\ schedNow' = schedNow + d
          /\ nextTime' = CalculateNextKlineTime(schedNow + d, schedPeriod)
          /\ calcAt' = schedNow + d
    /\ schedPc' = IF nextTime'.ok THEN "sleep" ELSE "panicked"
    /\ UNCHANGED <<cancelled, schedPeriod, runs, ranAt, fetcherStarted>>
    /\ UNCHANGED beyondScheduler

\* The select between two runs takes <-ctx.Done(): the scheduler returns.
SleepCancel ==
    /\ schedPc = "sleep"
    /\ CtxDone(cancelled)
    /\ schedPc' = "returned"
    /\ UNCHANGED <<cancelled, schedNow, schedPeriod, nextTime, calcAt, runs, ranAt,
                   fetcherStarted>>
    /\ UNCHANGED beyondScheduler

\* The select between two runs takes <-time.After(waitDuration): continue.
SleepWake ==
    /\ schedPc = "sleep"
    /\ TimerReady
    /\ schedPc' = "top"
    /\ UNCHANGED <<cancelled, schedNow, schedPeriod, nextTime, calcAt, runs, ranAt,
                   fetcherStarted>>
    /\ UNCHANGED beyondScheduler

\* Time passes for a sleeping scheduler until its timer is due.
PassToTimer ==
    /\ schedPc \in {"first", "sleep"}
    /\ ~TimerReady
    /\ schedNow' = nextTime.at
    /\ UNCHANGED <<schedPc, cancelled, schedPeriod, nextTime, calcAt, runs, ranAt,
                   fetcherStarted>>
    /\ UNCHANGED beyondScheduler

\* App.Stop: cancel() closes ctx.Done(), in a process that is alive.
Cancel ==
    /\ schedPc # "panicked"
    /\ ~cancelled
    /\ cancelled' = TRUE
    /\ UNCHANGED <<schedPc, schedNow, schedPeriod, nextTime, calcAt, runs, ranAt,
                   fetcherStarted>>
    /\ UNCHANGED beyondScheduler

\* ------------------------------------------------------ the application
\* App.Start runs startLegacySystem (the scheduler above) and
\* startDonchianStrategy in one goroutine each, in one process.
\* An unrecovered panic in any goroutine ends the process; until the runtime
\* has ended it, no other goroutine is modelled as taking a step.
ProcessAlive == process = "alive" /\ schedPc # "panicked"

\* A variant of Client.Close that leaves the connection open.
ClientCloseKeeps(open) == open

\* Client.Close: the connection, if there is one, is closed and c.conn set
\* to nil. The result is whether a connection is open afterwards.
ClientClose(open) == FALSE

beyondApp == <<alarmVars, wsVars, engineVars, detectorVars, storeVars, pollVars, renderVars, persistVars, donchianVars>>

\* startDonchianStrategy calls NewDonchianEngine: the root context is made,
\* and database.NewManager opens the signal store or fails; on failure the
\* constructor cancels the context and the goroutine returns.
EngineCreate ==
    /\ ProcessAlive
    /\ stratPc = "new"
    /\ \E opened \in BOOLEAN :
          IF opened
          THEN /\ rootLive' = TRUE
               /\ dbOpen' = TRUE
               /\ stratPc' = "history"
          ELSE /\ rootLive' = FALSE
               /\ dbOpen' = FALSE
               /\ stratPc' = "failed"
    /\ UNCHANGED <<wsOpen, engineTasks, stopLog, process>>
    /\ UNCHANGED <<schedVars, beyondApp>>

\* DonchianEngine.Start, step 2: wsClient.Connect dials; on failure Start
\* returns the error and startDonchianStrategy logs it and returns.
EngineConnect ==
    /\ ProcessAlive
    /\ stratPc = "connect"
    /\ \E dialOk \in BOOLEAN :
          /\ wsOpen' = dialOk
          /\ stratPc' = IF dialOk THEN "subscribe" ELSE "failed"
    /\ UNCHANGED <<rootLive, dbOpen, engineTasks, stopLog, process>>
    /\ UNCHANGED <<schedVars, beyondApp>>

\* DonchianEngine.Start, steps 3 and 4: wsClient.Subscribe; on failure Start
\* returns the error and startDonchianStrategy returns; on success
\* startWorkers starts the engine's goroutines and startDonchianStrategy
\* waits for app.ctx.
EngineSubscribe ==
    /\ ProcessAlive
    /\ stratPc = "subscribe"
    /\ \E subscribed \in BOOLEAN :
          /\ engineTasks' = IF subscribed THEN "running" ELSE engineTasks
          /\ stratPc' = IF subscribed THEN "waiting" ELSE "failed"
    /\ UNCHANGED <<rootLive, dbOpen, wsOpen, stopLog, process>>
    /\ UNCHANGED <<schedVars, beyondApp>>

\* <-app.ctx.Done() in startDonchianStrategy, then DonchianEngine.Stop's
\* first step: de.cancel().
StopCancel ==
    /\ ProcessAlive
    /\ stratPc = "waiting"
    /\ CtxDone(cancelled)
    /\ rootLive' = FALSE
    /\ stopLog' = Append(stopLog, "cancel")
    /\ stratPc' = "closing"
    /\ UNCHANGED <<dbOpen, wsOpen, engineTasks, process>>
    /\ UNCHANGED <<schedVars, beyondApp>>

\* DonchianEngine.Stop: de.wsClient.Close().
StopCloseClient ==
    /\ ProcessAlive
    /\ stratPc = "closing"
    /\ wsOpen' = ClientClose(wsOpen)
    /\ stopLog' = Append(stopLog, "close_conn")
    /\ stratPc' = "draining"
    /\ UNCHANGED <<rootLive, dbOpen, engineTasks, process>>
    /\ UNCHANGED <<schedVars, beyondApp>>

\* The engine's goroutines see <-de.ctx.Done() and return.
TasksExit ==
    /\ ProcessAlive
    /\ engineTasks = "running"
    /\ ~rootLive
    /\ engineTasks' = "exited"
    /\ UNCHANGED <<stratPc, rootLive, dbOpen, wsOpen, stopLog, process>>
    /\ UNCHANGED <<schedVars, beyondApp>>

\* DonchianEngine.Stop's select takes <-done: de.wg.Wait() returned.
StopDrained ==
    /\ ProcessAlive
    /\ stratPc = "draining"
    /\ engineTasks = "exited"
    /\ stopLog' = Append(stopLog, "drained")
    /\ stratPc' = "closedb"
    /\ UNCHANGED <<rootLive, dbOpen, wsOpen, engineTasks, process>>
    /\ UNCHANGED <<schedVars, beyondApp>>

\* DonchianEngine.Stop's select takes <-time.After(30 * time.Second) while
\* some goroutine has not returned.
StopTimeout ==
    /\ ProcessAlive
    /\ stratPc = "draining"
    /\ engineTasks = "running"
    /\ stopLog' = Append(stopLog, "timeout")
    /\ stratPc' = "closedb"
    /\ UNCHANGED <<rootLive, dbOpen, wsOpen, engineTasks, process>>
    /\ UNCHANGED <<schedVars, beyondApp>>

\* DonchianEngine.Stop: de.dbManager.Close(), and Stop returns nil.
StopCloseStore ==
    /\ ProcessAlive
    /\ stratPc = "closedb"
    /\ dbOpen' = FALSE
    /\ stopLog' = Append(stopLog, "close_store")
    /\ stratPc' = "returned"
    /\ UNCHANGED <<rootLive, wsOpen, engineTasks, process>>
    /\ UNCHANGED <<schedVars, beyondApp>>

\* The Go runtime ends the process after the scheduler's goroutine panicked:
\* every goroutine of the process is gone.
ProcessExit ==
    /\ process = "alive"
    /\ schedPc = "panicked"
    /\ process' = "exited"
    /\ engineTasks' = IF engineTasks = "running" THEN "gone" ELSE engineTasks
    /\ UNCHANGED <<stratPc, rootLive, dbOpen, wsOpen, stopLog>>
    /\ UNCHANGED <<schedVars, beyondApp>>

\* ------------------------------------------------------------ the poller
\* A ticker of the response: instId as its base and quote currencies, and
\* last as what strconv.ParseFloat makes of the string.
PollTicker(base, quote, parses, value) ==
    [instId |-> [base |-> base, quote |-> quote],
     last |-> [parses |-> parses, value |-> value]]
\* What the tickers endpoint may answer to one GET: a failure of the
\* transport, a status other than 200, a body that cannot be read or parsed,
\* an API code other than "0", or a list of tickers.
PollFailures == {"transport", "status", "read", "json", "code"}
PollAnswers ==
    {[kind |-> k, data |-> <<>>] : k \in PollFailures}
    \cup {[kind |-> "ok", data |-> d] :
            d \in {<<>>,
                   <<PollTicker("BTC", "USDT", TRUE, 100),
                     PollTicker("ETH", "BTC", TRUE, 5),
                     PollTicker("ETH", "USDT", FALSE, 0)>>,
                   <<PollTicker("BTC", "USDT", TRUE, 0),
                     PollTicker("ETH", "USDT", TRUE, 104)>>}}

\* strings.HasSuffix(ticker.InstId, "-USDT")
HasSuffixUSDT(ticker) == ticker.instId.quote = "USDT"
\* ticker.InstId as the string the store is keyed by.
InstId(ticker) == IF ticker.instId.base = "BTC" THEN "BTC-USDT" ELSE "ETH-USDT"

\* getTickers, the filter on a good answer.
UsdtTickers(data) == SelectSeq(data, HasSuffixUSDT)

\* fetchAndStore's loop over the tickers getTickers returned: a USDT ticker
\* whose last price parses and is positive is stored with time.Now().
RECURSIVE StoreTickers(_, _, _)
StoreTickers(hist, list, t) ==
    IF list = <<>> THEN hist
    ELSE LET ticker == Head(list)
             keep == /\ HasSuffixUSDT(ticker)
                     /\ ticker.last.parses
                     /\ ticker.last.value > 0
         IN StoreTickers(IF keep
                         THEN StoreInto(hist, InstId(ticker), ticker.last.value, t, t)
                         ELSE hist,
                         Tail(list), t)

\* A variant of RetryLeft with one attempt more.
RetryLeftOneMore(n) == n + 1 <= MaxAttempts + 1

\* getTickers' loop condition after attempt n failed: attempt <= 3 for the
\* next one.
RetryLeft(n) == n + 1 <= MaxAttempts

pollFrame == <<restOfAlarm, wsVars, engineVars, detectorVars, storeVars,
               schedVars, appVars, renderVars, persistVars, donchianVars>>

\* DataFetcher.Start: the ticker is made and fetchAndStore is called at once.
PollStart ==
    /\ pollPc = "new"
    /\ pollPc' = "attempt"
    /\ attempt' = 1
    /\ httpCalls' = 0
    /\ storedBefore' = priceHistory
    /\ UNCHANGED <<tickLog, now, priceHistory>>
    /\ UNCHANGED pollFrame

\* One pass of getTickers' loop: a GET and what becomes of its answer. A
\* good answer ends getTickers and fetchAndStore stores its tickers; a bad
\* one goes on to the next attempt, or, after the last, returns lastErr and
\* fetchAndStore logs it and returns.
HttpAttempt ==
    /\ pollPc = "attempt"
    /\ httpCalls' = httpCalls + 1
    /\ \E answer \in PollAnswers :
          IF answer.kind = "ok"
          THEN /\ priceHistory' =
                      StoreTickers(priceHistory, UsdtTickers(answer.data), now)
               /\ tickLog' = Append(tickLog, "stored")
               /\ pollPc' = "wait"
               /\ UNCHANGED attempt
          ELSE IF RetryLeft(attempt)
          THEN /\ attempt' = attempt + 1
               /\ UNCHANGED <<priceHistory, tickLog, pollPc>>
          ELSE /\ tickLog' = Append(tickLog, "failed")
               /\ pollPc' = "wait"
               /\ UNCHANGED <<priceHistory, attempt>>
    /\ UNCHANGED <<now, storedBefore>>
    /\ UNCHANGED pollFrame

\* Start's select takes <-ticker.C, a sampling interval later:
\* fetchAndStore is called.
PollTick ==
    /\ pollPc = "wait"
    /\ Len(tickLog) < MaxPolls
    /\ now' = now + SamplingInterval
    /\ pollPc' = "attempt"
    /\ attempt' = 1
    /\ httpCalls' = 0
    /\ storedBefore' = priceHistory
    /\ UNCHANGED <<tickLog, priceHistory>>
    /\ UNCHANGED pollFrame

\* Start's select takes <-ctx.Done(): the poller returns.
PollCancel ==
    /\ pollPc = "wait"
    /\ CtxDone(cancelled)
    /\ pollPc' = "stopped"
    /\ UNCHANGED <<attempt, httpCalls, tickLog, storedBefore, now, priceHistory>>
    /\ UNCHANGED pollFrame

\* ------------------------------------------------------------ notifier
\* What one notifier call did: the error it returned, what it printed on
\* the console (printAlert / printBatchAlerts, with the alerts), and what it
\* posted to the remote service.
Quiet == [err |-> FALSE, console |-> <<>>, remote |-> <<>>]

\* ConsoleNotifier.SendAlert
ConsoleSendAlert(alert) ==
    [Quiet EXCEPT !.console = <<[op |-> "printAlert", alerts |-> <<alert>>]>>]

\* ConsoleNotifier.SendBatchAlerts
ConsoleSendBatchAlerts(as) ==
    IF Len(as) = 0 THEN Quiet
    ELSE IF Len(as) = 1 THEN ConsoleSendAlert(as[1])
    ELSE [Quiet EXCEPT !.console = <<[op |-> "printBatchAlerts", alerts |-> as]>>]

\* sendDingTalkMessage / sendPushPlusMessage: one HTTP POST; an error
\* unless the transport worked and the service answered success.
SendMessage(kind, as, outcome) ==
    [err |-> outcome # "ok",
     remote |-> <<[kind |-> kind, alerts |-> as, outcome |-> outcome]>>]

\* A variant of DingTalkSendAlert that hands the transport error back.
DingTalkSendAlertPropagates(alert, enabled, outcome) ==
    IF ~enabled THEN ConsoleSendAlert(alert)
    ELSE LET sent == SendMessage("single", <<alert>>, outcome)
         IN [err |-> sent.err, console |-> <<>>, remote |-> sent.remote]

\* DingTalkNotifier.SendAlert
DingTalkSendAlert(alert, enabled, outcome) ==
    IF ~enabled THEN ConsoleSendAlert(alert)
    ELSE LET sent == SendMessage("single", <<alert>>, outcome)
         IN IF sent.err
            THEN [ConsoleSendAlert(alert) EXCEPT !.remote = sent.remote]
            ELSE [Quiet EXCEPT !.remote = sent.remote]

\* DingTalkNotifier.SendBatchAlerts
DingTalkSendBatchAlerts(as, enabled, outcome) ==
    IF Len(as) = 0 THEN Quiet
    ELSE IF Len(as) = 1 THEN DingTalkSendAlert(as[1], enabled, outcome)
    ELSE IF ~enabled THEN ConsoleSendBatchAlerts(as)
    ELSE LET sent == SendMessage("batch", as, outcome)
         IN IF sent.err
            THEN [ConsoleSendBatchAlerts(as) EXCEPT !.remote = sent.remote]
            ELSE [Quiet EXCEPT !.remote = sent.remote]

\* PushPlusNotifier.SendAlert
PushPlusSendAlert(alert, enabled, outcome) ==
    IF ~enabled THEN ConsoleSendAlert(alert)
    ELSE LET sent == SendMessage("single", <<alert>>, outcome)
         IN IF sent.err
            THEN [ConsoleSendAlert(alert) EXCEPT !.remote = sent.remote]
            ELSE [Quiet EXCEPT !.remote = sent.remote]

\* PushPlusNotifier.SendBatchAlerts
PushPlusSendBatchAlerts(as, enabled, outcome) ==
    IF Len(as) = 0 THEN Quiet
    ELSE IF Len(as) = 1 THEN PushPlusSendAlert(as[1], enabled, outcome)
    ELSE IF ~enabled THEN ConsoleSendBatchAlerts(as)
    ELSE LET sent == SendMessage("batch", as, outcome)
         IN IF sent.err
            THEN [ConsoleSendBatchAlerts(as) EXCEPT !.remote = sent.remote]
            ELSE [Quiet EXCEPT !.remote = sent.remote]

\* NewDingTalkNotifier / NewPushPlusNotifier set enabled and nothing clears it.
NotifierEnabled == TRUE

\* An implementation of notifier.Interface that hands back the error of
\* its transport: both methods return error.
InterfaceSend(kind, as, outcome) ==
    [err |-> SendMessage(kind, as, outcome).err, console |-> <<>>,
     remote |-> SendMessage(kind, as, outcome).remote]

\* notifier.Interface.SendAlert on the selected back-end
NotifierSendAlert(alert, outcome) ==
    CASE backend = "dingtalk" -> DingTalkSendAlert(alert, NotifierEnabled, outcome)
      [] backend = "pushplus" -> PushPlusSendAlert(alert, NotifierEnabled, outcome)
      [] backend = "interface" -> InterfaceSend("single", <<alert>>, outcome)
      [] OTHER -> ConsoleSendAlert(alert)

\* notifier.Interface.SendBatchAlerts on the selected back-end
NotifierSendBatchAlerts(as, outcome) ==
    CASE backend = "dingtalk" -> DingTalkSendBatchAlerts(as, NotifierEnabled, outcome)
      [] backend = "pushplus" -> PushPlusSendBatchAlerts(as, NotifierEnabled, outcome)
      [] backend = "interface" -> InterfaceSend("batch", as, outcome)
      [] OTHER -> ConsoleSendBatchAlerts(as)

\* One entry of the call log.
Call(op, as, outcome, result) ==
    [op |-> op, alerts |-> as, outcome |-> outcome, result |-> result]

\* ------------------------------------------------------------ analyzer
\* analyzeSymbol: changePercent = (current - past) / past * 100, as a fraction.
ChangePercent(cur, pst) == [num |-> (cur.price - pst.price) * 100, den |-> pst.price]

\* A variant of ExceedsThreshold that also fires at the threshold itself.
ExceedsThresholdInclusive(change) == Abs(change.num) >= Threshold * change.den

\* analyzeSymbol: absChange > ae.threshold
ExceedsThreshold(change) == Abs(change.num) > Threshold * change.den

\* AnalysisEngine.shouldAlert: no entry, or time.Since(lastAlert) > monitorPeriod
ShouldAlert(last, t) == last = NoTime \/ t - last > monitorPeriod

\* AnalysisEngine.recordAlert: write the entry, then delete every entry that
\* is Before(now - 1h).
RecordAlert(hist, symbol, t) ==
    LET written == [hist EXCEPT ![symbol] = t]
        cutoff == t - PruneAge
    IN [s \in AlarmSymbols |->
           IF written[s] # NoTime /\ written[s] < cutoff THEN NoTime ELSE written[s]]

\* A variant of FanIn in which a goroutine's append overwrites the slice.
FanInOverwrites(collected, alert) == <<alert>>

\* AnalyzeAll: alerts = append(alerts, alert), under alertMutex
FanIn(collected, alert) == Append(collected, alert)

\* time.Now() moves on.
Tick ==
    /\ \E d \in TickSteps :
          /\ now + d <= MaxTime
          /\ (now + d) % PruneAge <= MaxMinute
          /\ now' = now + d
    /\ UNCHANGED <<monitorPeriod, backend, priceHistory, alertHistory,
                   runPc, symPc, current, past, seen, verdict, pending, alerts,
                   calls, alertLog, failedAt>>
    /\ UNCHANGED beyondAlarm

\* DataFetcher.fetchAndStore: one poll stores the last price of every ticker
\* with time.Now(); the poller's ticker fires at most once a minute.
FetchAndStore ==
    /\ \A s \in AlarmSymbols :
          GetLatest(priceHistory[s]).timestamp < now
    /\ \E report \in Tickers :
          priceHistory' =
              [s \in AlarmSymbols |->
                  StoreInto(priceHistory, s, report[s], now, now)[s]]
    /\ UNCHANGED <<now, monitorPeriod, backend, alertHistory, runPc, symPc,
                   current, past, seen, verdict, pending, alerts, calls, alertLog, failedAt>>
    /\ UNCHANGED beyondAlarm

\* AnalyzeAll, up to the start of one goroutine per symbol.
StartRun ==
    /\ runPc = "idle"
    /\ GetAllSymbols # {}
    /\ runPc' = "fanout"
    /\ symPc' = [s \in AlarmSymbols |-> IF s \in GetAllSymbols THEN "start" ELSE "none"]
    /\ current' = [s \in AlarmSymbols |-> NoPoint]
    /\ past' = [s \in AlarmSymbols |-> NoPoint]
    /\ seen' = [s \in AlarmSymbols |-> [last |-> NoTime, at |-> NoTime]]
    /\ verdict' = [s \in AlarmSymbols |-> "none"]
    /\ pending' = [s \in AlarmSymbols |-> NoAlert]
    /\ alerts' = <<>>
    /\ calls' = <<>>
    /\ UNCHANGED <<now, monitorPeriod, backend, priceHistory,
                   alertHistory, alertLog, failedAt>>
    /\ UNCHANGED beyondAlarm

\* analyzeSymbol up to the alert it builds: GetPriceData, the threshold test,
\* shouldAlert, and the alert stamped with time.Now().
AnalyzeSymbol(s) ==
    /\ runPc = "fanout"
    /\ symPc[s] = "start"
    /\ LET pair == GetPriceData(s, now)
           have == pair[1] # NoPoint /\ pair[2] # NoPoint
           over == have /\ ExceedsThreshold(ChangePercent(pair[1], pair[2]))
           fire == over /\ ShouldAlert(alertHistory[s], now)
       IN /\ current' = [current EXCEPT ![s] = pair[1]]
          /\ past' = [past EXCEPT ![s] = pair[2]]
          /\ seen' = [seen EXCEPT ![s] =
                         IF over THEN [last |-> alertHistory[s], at |-> now] ELSE @]
          /\ verdict' = [verdict EXCEPT ![s] =
                            IF ~have THEN "nodata"
                            ELSE IF ~over THEN "below"
                            ELSE IF ~fire THEN "cooldown" ELSE "alert"]
          /\ pending' = [pending EXCEPT ![s] =
                            IF fire
                            THEN [symbol |-> s,
                                  currentPrice |-> pair[1].price,
                                  pastPrice |-> pair[2].price,
                                  changePercent |-> ChangePercent(pair[1], pair[2]),
                                  alertTime |-> now,
                                  monitorPeriod |-> monitorPeriod]
                            ELSE @]
          /\ alertLog' = [alertLog EXCEPT ![s] = IF fire THEN Append(@, now) ELSE @]
          /\ symPc' = [symPc EXCEPT ![s] = IF fire THEN "record" ELSE "done"]
    /\ UNCHANGED <<now, monitorPeriod, backend, priceHistory, alertHistory,
                   runPc, alerts, calls, failedAt>>
    /\ UNCHANGED beyondAlarm

\* analyzeSymbol: recordAlert
AnalyzeRecord(s) ==
    /\ runPc = "fanout"
    /\ symPc[s] = "record"
    /\ alertHistory' = RecordAlert(alertHistory, s, now)
    /\ symPc' = [symPc EXCEPT ![s] = "append"]
    /\ UNCHANGED <<now, monitorPeriod, backend, priceHistory, runPc,
                   current, past, seen, verdict, pending, alerts, calls, alertLog, failedAt>>
    /\ UNCHANGED beyondAlarm

\* AnalyzeAll's goroutine: the returned alert joins the slice.
AnalyzeAppend(s) ==
    /\ runPc = "fanout"
    /\ symPc[s] = "append"
    /\ alerts' = FanIn(alerts, pending[s])
    /\ symPc' = [symPc EXCEPT ![s] = "done"]
    /\ UNCHANGED <<now, monitorPeriod, backend, priceHistory,
                   alertHistory, runPc, current, past, seen, verdict, pending,
                   calls, alertLog, failedAt>>
    /\ UNCHANGED beyondAlarm

\* AnalyzeAll: wg.Wait() returns.
FanInDone ==
    /\ runPc = "fanout"
    /\ \A s \in AlarmSymbols : symPc[s] \in {"none", "done"}
    /\ runPc' = "send"
    /\ UNCHANGED <<now, monitorPeriod, backend, priceHistory,
                   alertHistory, symPc, current, past, seen, verdict, pending,
                   alerts, calls, alertLog, failedAt>>
    /\ UNCHANGED beyondAlarm

\* The per-alert sends that follow a failed batch send, with the transport's
\* outcome for each.
RECURSIVE SingleSends(_, _)
SingleSends(as, outs) ==
    IF Len(as) = 0 THEN <<>>
    ELSE <<Call("SendAlert", <<as[1]>>, outs[1], NotifierSendAlert(as[1], outs[1]))>>
         \o SingleSends(Tail(as), Tail(outs))

\* A variant of SendBatchAlerts whose per-alert sends end at the first one
\* that fails.
SendBatchAlertsStopsAtFailure(as, outcome, outs) ==
    IF Len(as) = 0 THEN <<>>
    ELSE IF Len(as) = 1
    THEN <<Call("SendAlert", as, outcome, NotifierSendAlert(as[1], outcome))>>
    ELSE LET batch == NotifierSendBatchAlerts(as, outcome)
             all == SingleSends(as, outs)
             failed == {i \in 1..Len(all) : all[i].result.err}
             upto == IF failed = {} THEN Len(all)
                     ELSE CHOOSE i \in failed : \A j \in failed : i <= j
         IN <<Call("SendBatchAlerts", as, outcome, batch)>>
            \o (IF batch.err THEN SubSeq(all, 1, upto) ELSE <<>>)

\* AnalysisEngine.sendBatchAlerts: the calls it makes on the notifier.
SendBatchAlerts(as, outcome, outs) ==
    IF Len(as) = 0 THEN <<>>
    ELSE IF Len(as) = 1
    THEN <<Call("SendAlert", as, outcome, NotifierSendAlert(as[1], outcome))>>
    ELSE LET batch == NotifierSendBatchAlerts(as, outcome)
         IN <<Call("SendBatchAlerts", as, outcome, batch)>>
            \o (IF batch.err THEN SingleSends(as, outs) ELSE <<>>)

\* sendBatchAlerts: every call that carried the alert returned an error,
\* which sendBatchAlerts logs and drops.
DispatchFailed(cs, a) ==
    /\ \E i \in 1..Len(cs) : a \in Range(cs[i].alerts)
    /\ \A i \in 1..Len(cs) : a \in Range(cs[i].alerts) => cs[i].result.err

\* AnalyzeAll: after the fan-in, the batch is sent when it is not empty.
SendRun ==
    /\ runPc = "send"
    /\ \E outcome \in Outcomes, outs \in [1..Len(alerts) -> Outcomes] :
          calls' = IF Len(alerts) > 0
                   THEN SendBatchAlerts(alerts, outcome, outs)
                   ELSE <<>>
    /\ failedAt' = [s \in AlarmSymbols |->
                        IF /\ pending[s] \in Range(alerts)
                           /\ DispatchFailed(calls', pending[s])
                        THEN pending[s].alertTime ELSE failedAt[s]]
    /\ runPc' = "sent"
    /\ UNCHANGED <<now, monitorPeriod, backend, priceHistory,
                   alertHistory, symPc, current, past, seen, verdict, pending,
                   alerts, alertLog>>
    /\ UNCHANGED beyondAlarm

\* AnalyzeAll returns: its locals and those of its goroutines are gone.
ReturnRun ==
    /\ runPc = "sent"
    /\ runPc' = "idle"
    /\ symPc' = [s \in AlarmSymbols |-> "none"]
    /\ current' = [s \in AlarmSymbols |-> NoPoint]
    /\ past' = [s \in AlarmSymbols |-> NoPoint]
    /\ seen' = [s \in AlarmSymbols |-> [last |-> NoTime, at |-> NoTime]]
    /\ verdict' = [s \in AlarmSymbols |-> "none"]
    /\ pending' = [s \in AlarmSymbols |-> NoAlert]
    /\ alerts' = <<>>
    /\ calls' = <<>>
    /\ UNCHANGED <<now, monitorPeriod, backend, priceHistory, alertHistory,
                   alertLog, failedAt>>
    /\ UNCHANGED beyondAlarm

\* ------------------------------------------------ bodies of batch notices
\* types.AlertData of a symbol whose price went from pst to cur.
BatchAlert(symbol, pst, cur) ==
    [symbol |-> symbol, currentPrice |-> cur, pastPrice |-> pst,
     changePercent |-> ChangePercent([price |-> cur], [price |-> pst]),
     alertTime |-> 0, monitorPeriod |-> 3]
\* Alerts of +1%, -2%, +5%, -4%, and a second one of +5%.
AlertA == BatchAlert("A-USDT", 100, 101)
AlertB == BatchAlert("B-USDT", 100, 98)
AlertC == BatchAlert("C-USDT", 100, 105)
AlertD == BatchAlert("D-USDT", 100, 96)
AlertE == BatchAlert("E-USDT", 20, 21)
\* A batch of n risers, of +11% to +(10+n)%, the smallest first but for the
\* largest, which leads, and one faller in their middle.
ManyRisers(n) ==
    [i \in 1..(n + 1) |->
        IF i = 1 THEN BatchAlert("R-USDT", 100, 110 + n)
        ELSE IF i = 3 THEN AlertD
        ELSE BatchAlert("R-USDT", 100, 110 + (IF i = 2 THEN 1 ELSE i - 2))]
\* The batches tried: every arrangement of two to four of the alerts A to E,
\* and batches with more risers than a remote body lists.
Batches ==
    {q \in UNION {[1..n -> {AlertA, AlertB, AlertC, AlertD, AlertE}] : n \in 2..4} :
        \A i, j \in 1..Len(q) : i # j => q[i] # q[j]}
    \cup {ManyRisers(DingTalkMaxShow + 1), ManyRisers(PushPlusMaxShow + 1)}

\* float64 comparison of two changePercent values.
MoreThan(a, b) == a.num * b.den > b.num * a.den
IsRiser(alert) == alert.changePercent.num > 0
IsFaller(alert) == ~IsRiser(alert)

\* A variant of FallerBefore that puts the smallest fall first.
FallerBeforeSmallestFirst(a, b) == MoreThan(a.changePercent, b.changePercent)

\* less of the sort of downAlerts: the more negative changePercent first.
FallerBefore(a, b) == MoreThan(b.changePercent, a.changePercent)
\* less of the sort of upAlerts: the greater changePercent first.
RiserBefore(a, b) == MoreThan(a.changePercent, b.changePercent)

\* sort.Slice is not stable: it may leave a group in any order in which no
\* alert stands before one that less puts before it.
RECURSIVE SortSlice(_, _, _)
SortSlice(group, idx, rising) ==
    IF idx = {} THEN {<<>>}
    ELSE LET before(a, b) == IF rising THEN RiserBefore(a, b) ELSE FallerBefore(a, b)
             firsts == {i \in idx : \A j \in idx : ~before(group[j], group[i])}
         IN UNION {{<<group[i]>> \o rest : rest \in SortSlice(group, idx \ {i}, rising)} :
                      i \in firsts}

\* The first n elements of a sequence, all of them when it is shorter.
Shown(q, n) == SubSeq(q, 1, IF Len(q) > n THEN n ELSE Len(q))

\* What printBatchAlerts, buildBatchMarkdownContent and
\* buildBatchHTMLContent make of a batch: the alerts with changePercent > 0
\* and the others, each group sorted, and of each group as many as the body
\* shows, the risers' section before the fallers'; the bodies it may build.
BatchBodies(builder, as, maxShow) ==
    LET upAlerts == SelectSeq(as, IsRiser)
        downAlerts == SelectSeq(as, IsFaller)
    IN {[builder |-> builder,
         listed |-> Shown(ups, maxShow) \o Shown(downs, maxShow),
         upCount |-> Len(upAlerts), downCount |-> Len(downAlerts)] :
           ups \in SortSlice(upAlerts, 1..Len(upAlerts), TRUE),
           downs \in SortSlice(downAlerts, 1..Len(downAlerts), FALSE)}
PrintBatchAlerts(as) == BatchBodies("printBatchAlerts", as, Len(as))
BuildBatchMarkdownContent(as) ==
    BatchBodies("buildBatchMarkdownContent", as, DingTalkMaxShow)
BuildBatchHTMLContent(as) ==
    BatchBodies("buildBatchHTMLContent", as, PushPlusMaxShow)

\* SendBatchAlerts of a back-end for more than one alert: the console prints
\* its body; an enabled remote back-end builds and posts its body, and when
\* the post fails the console prints its own.
RenderBatch ==
    /\ rendered = <<>>
    /\ \E as \in Batches, b \in Backends, enabled \in BOOLEAN, outcome \in Outcomes :
          \E remote \in IF b = "dingtalk" THEN BuildBatchMarkdownContent(as)
                        ELSE BuildBatchHTMLContent(as),
             console \in PrintBatchAlerts(as) :
                /\ batchIn' = as
                /\ rendered' = IF b = "console" \/ ~enabled THEN <<console>>
                               ELSE IF outcome = "ok" THEN <<remote>>
                               ELSE <<remote, console>>
    /\ UNCHANGED <<alarmVars, wsVars, engineVars, detectorVars, storeVars,
                   schedVars, appVars, pollVars, persistVars, donchianVars>>

\* ------------------------------------------------------------ detector
\* The detector's float64 values are kept as exact fractions num/den, den > 0,
\* in lowest terms; candle prices and volumes are integers.
RECURSIVE GCD(_, _)
GCD(a, b) == IF b = 0 THEN a ELSE GCD(b, a % b)
Frac(n, d) == LET g == GCD(Abs(n), d) IN [num |-> n \div g, den |-> d \div g]
FracAdd(a, b) == Frac(a.num * b.den + b.num * a.den, a.den * b.den)
\* a * n / d
FracMul(a, n, d) == Frac(a.num * n, a.den * d)
FracLess(a, b) == a.num * b.den < b.num * a.den
Max(a, b) == IF a > b THEN a ELSE b
MaxOf(S) == CHOOSE x \in S : \A y \in S : y <= x
MinOf(S) == CHOOSE x \in S : \A y \in S : x <= y
RECURSIVE SumSeq(_)
SumSeq(q) == IF Len(q) = 0 THEN 0 ELSE Head(q) + SumSeq(Tail(q))
RECURSIVE SumFrac(_)
SumFrac(q) == IF Len(q) = 0 THEN Frac(0, 1) ELSE FracAdd(Head(q), SumFrac(Tail(q)))
\* The Go slice q[from:to]
Slice(q, from, to) == SubSeq(q, from + 1, to)
\* The Go slice q[len(q)-n:]
LastN(q, n) == SubSeq(q, Len(q) - n + 1, Len(q))

\* ATRCalculator.calculateTrueRange
CalculateTrueRange(klines) ==
    IF Len(klines) < 2 THEN <<>>
    ELSE [i \in 1..(Len(klines) - 1) |->
             LET cur == klines[i + 1]
                 previous == klines[i]
             IN Max(cur.high - cur.low,
                    Max(Abs(cur.high - previous.close),
                        Abs(cur.low - previous.close)))]

\* ATRCalculator.calculateSMA
CalculateSMA(values) ==
    IF Len(values) = 0 THEN Frac(0, 1) ELSE Frac(SumSeq(values), Len(values))

\* The sums of length true ranges that end at the positions at.
WindowSums(trValues, at, length) ==
    [k \in 1..Len(at) |-> SumSeq(SubSeq(trValues, at[k] - length + 1, at[k]))]

\* The loop calculateATRSlope, isATRInLowestQuartile and GetATRPercentile
\* share, the ATR at each of the last ATRSlopeWindow candles; kept as the sum
\* of the length true ranges, the ATR being that sum over length.  The true
\* ranges of klines[i-length : i+1] are those of klines at i-length+1 .. i.
ATRSums(klines, length) ==
    WindowSums(CalculateTrueRange(klines),
               SelectSeq([k \in 1..ATRSlopeWindow |->
                             Len(klines) - ATRSlopeWindow + k - 1],
                         LAMBDA i : i - length >= 0),
               length)

\* The sums 1 + .. + n and 1 + 4 + .. + n * n of the regression's x.
SumX(n) == (n * (n + 1)) \div 2
SumX2(n) == (n * (n + 1) * (2 * n + 1)) \div 6

\* ATRCalculator.calculateLinearRegressionSlope, of the values sums[i] / scale
CalculateLinearRegressionSlope(sums, scale) ==
    LET n == Len(sums)
        denominator == n * SumX2(n) - SumX(n) * SumX(n)
    IN IF n < 2 \/ denominator = 0 \/ scale = 0 THEN Frac(0, 1)
       ELSE Frac(n * SumSeq([i \in 1..n |-> i * sums[i]]) - SumX(n) * SumSeq(sums),
                 denominator * scale)

\* calculateATRSlope once the ATR values are there.
SlopeOf(atrSums, length) ==
    IF Len(atrSums) < 10 THEN Frac(0, 1)
    ELSE CalculateLinearRegressionSlope(atrSums, length)

\* ATRCalculator.calculateATRSlope
CalculateATRSlope(klines, length) ==
    IF Len(klines) < ATRSlopeWindow + length THEN Frac(0, 1)
    ELSE SlopeOf(ATRSums(klines, length), length)

\* The last length of the true ranges, averaged.
LastATR(trValues, length) == CalculateSMA(LastN(trValues, length))

\* ATRCalculator.Calculate; ok is FALSE for nil.
ATRCalculate(klines, length) ==
    IF Len(klines) < length + 1 \/ Len(klines) - 1 < length
    THEN [ok |-> FALSE, value |-> Frac(0, 1), slope |-> Frac(0, 1)]
    ELSE [ok |-> TRUE,
          value |-> LastATR(CalculateTrueRange(klines), length),
          slope |-> CalculateATRSlope(klines, length)]

\* What quickSort leaves at position index, counted from 0.
SortedAt(values, index) ==
    CHOOSE v \in Range(values) :
        /\ Cardinality({k \in 1..Len(values) : values[k] < v}) <= index
        /\ index < Cardinality({k \in 1..Len(values) : values[k] <= v})

\* isATRInLowestQuartile once the ATR values are there.
InLowestQuartile(atrSums, length, currentATR) ==
    IF Len(atrSums) < 4 THEN FALSE
    ELSE ~FracLess(Frac(SortedAt(atrSums, (Len(atrSums) * 25) \div 100), length),
                   currentATR)

\* ATRCalculator.isATRInLowestQuartile
IsATRInLowestQuartile(currentATR, klines, length) ==
    IF Len(klines) < ATRSlopeWindow + length THEN FALSE
    ELSE InLowestQuartile(ATRSums(klines, length), length, currentATR)

\* ATRCalculator.IsATRDecreasing
IsATRDecreasing(atrData, klines, length) ==
    IF ~atrData.ok THEN FALSE
    ELSE IF atrData.slope.num < 0 THEN TRUE
    ELSE IsATRInLowestQuartile(atrData.value, klines, length)

\* GetATRPercentile once the ATR values are there.
PercentileIn(atrSums, length, currentATR) ==
    IF Len(atrSums) = 0 THEN Frac(50, 1)
    ELSE Frac(Cardinality({k \in 1..Len(atrSums) :
                              FracLess(Frac(atrSums[k], length), currentATR)}) * 100,
              Len(atrSums))

\* ATRCalculator.GetATRPercentile
GetATRPercentile(currentATR, klines, length) ==
    IF Len(klines) < ATRSlopeWindow + length THEN Frac(50, 1)
    ELSE PercentileIn(ATRSums(klines, length), length, currentATR)

\* A variant of DonchianCalculate that takes the channel over the last length
\* candles whatever the offset.
DonchianCalculateToTheEnd(klines, length, offset) ==
    LET first == Max(Len(klines) - length, 0) + 1
        window == first..Len(klines)
    IN IF Len(klines) < length + offset
       THEN [ok |-> FALSE, upper |-> 0, lower |-> 0]
       ELSE IF window = {} THEN [ok |-> TRUE, upper |-> 0, lower |-> 0]
       ELSE [ok |-> TRUE,
             upper |-> MaxOf({klines[i].high : i \in window}),
             lower |-> MinOf({klines[i].low : i \in window})]

\* DonchianCalculator.Calculate; ok is FALSE for nil.  The channel is taken
\* over the length candles that end offset candles before the last.
DonchianCalculate(klines, length, offset) ==
    LET first == Max(Len(klines) - length - offset, 0) + 1
        last == Len(klines) - offset
        window == first..last
    IN IF Len(klines) < length + offset
       THEN [ok |-> FALSE, upper |-> 0, lower |-> 0]
       ELSE IF window = {} THEN [ok |-> TRUE, upper |-> 0, lower |-> 0]
       ELSE [ok |-> TRUE,
             upper |-> MaxOf({klines[i].high : i \in window}),
             lower |-> MinOf({klines[i].low : i \in window})]

\* DonchianCalculator.CalculateBreakout: the direction, "" for no breakout.
CalculateBreakout(klines, channel) ==
    IF Len(klines) = 0 \/ ~channel.ok THEN ""
    ELSE LET latest == Last(klines)
         IN IF latest.close > channel.upper /\ latest.close > latest.open
            THEN "LONG"
            ELSE IF latest.close < channel.lower /\ latest.close < latest.open
            THEN "SHORT"
            ELSE ""

\* DonchianCalculator.DetectConsolidation: the range of the last
\* consolidationBars candles is at most 5% of the mean of its ends.
DetectConsolidation(klines, consolidationBars) ==
    LET window == (Len(klines) - consolidationBars + 1)..Len(klines)
        highest == IF window = {} THEN 0 ELSE MaxOf({klines[i].high : i \in window})
        lowest == IF window = {} THEN 0 ELSE MinOf({klines[i].low : i \in window})
    IN IF Len(klines) < consolidationBars THEN FALSE
       ELSE (highest - lowest) * 40 <= highest + lowest

\* DonchianCalculator.IsValidBreakout
IsValidBreakout(klines, channel, volumeMultiplier) ==
    IF Len(klines) < 2 \/ ~channel.ok THEN FALSE
    ELSE LET cur == klines[Len(klines)]
             previous == klines[Len(klines) - 1]
             direction == CalculateBreakout(klines, channel)
             volumeConfirmed == cur.volume * volumeMultiplier.den >=
                                   previous.volume * volumeMultiplier.num
             candleConfirmed ==
                 IF direction = "LONG"
                 THEN cur.close > cur.open /\ cur.close > channel.upper
                 ELSE IF direction = "SHORT"
                 THEN cur.close < cur.open /\ cur.close < channel.lower
                 ELSE FALSE
         IN direction # "" /\ volumeConfirmed /\ candleConfirmed

\* DonchianCalculator.GetDonchianPosition
GetDonchianPosition(price, channel) ==
    IF ~channel.ok \/ channel.upper = channel.lower THEN Frac(1, 2)
    ELSE IF price < channel.lower THEN Frac(0, 1)
    ELSE IF price > channel.upper THEN Frac(1, 1)
    ELSE Frac(price - channel.lower, channel.upper - channel.lower)

\* DonchianSignalDetector.calculateBreakoutStrength
CalculateBreakoutStrength(kline, channel) ==
    LET channelWidth == channel.upper - channel.lower
        breakoutDistance == IF kline.close > channel.upper
                            THEN kline.close - channel.upper
                            ELSE channel.lower - kline.close
    IN IF channel.upper = channel.lower THEN Frac(0, 1)
       ELSE IF kline.close <= channel.upper /\ kline.close >= channel.lower
       THEN Frac(0, 1)
       ELSE IF breakoutDistance * 100 > 100 * channelWidth THEN Frac(100, 1)
       ELSE Frac(breakoutDistance * 100, channelWidth)

\* DonchianSignalDetector.calculateVolumeStrength
CalculateVolumeStrength(cur, previous, volumeMultiplier) ==
    LET ratio == cur.volume * volumeMultiplier.den
        unit == previous.volume * volumeMultiplier.num
    IN IF previous.volume = 0 THEN 0
       ELSE IF ratio >= unit * 2 THEN 100
       ELSE IF ratio >= unit THEN 80
       ELSE IF ratio * 10 >= unit * 8 THEN 60
       ELSE IF ratio * 10 >= unit * 6 THEN 40
       ELSE 20

\* DonchianSignalDetector.calculateATRStrength
CalculateATRStrength(atrData, klines, length) ==
    LET slopeStrength ==
            IF atrData.slope.num >= 0 THEN Frac(0, 1)
            ELSE IF -atrData.slope.num * 20 > atrData.slope.den THEN Frac(50, 1)
            ELSE FracMul(atrData.slope, -1000, 1)
        percentile == GetATRPercentile(atrData.value, klines, length)
        percentileStrength == FracMul(FracAdd(Frac(100, 1), FracMul(percentile, -1, 1)), 1, 2)
    IN FracAdd(slopeStrength, percentileStrength)

\* DonchianSignalDetector.calculateCandleStrength
CalculateCandleStrength(kline) ==
    IF kline.high = kline.low THEN Frac(0, 1)
    ELSE Frac(Abs(kline.close - kline.open) * 100, kline.high - kline.low)

\* DonchianSignalDetector.calculatePositionStrength
CalculatePositionStrength(kline, channel) ==
    LET position == GetDonchianPosition(kline.close, channel)
    IN IF kline.close > channel.upper
       THEN FracMul(FracAdd(position, Frac(-1, 1)), 200, 1)
       ELSE IF kline.close < channel.lower
       THEN FracMul(position, -200, 1)
       ELSE Frac(0, 1)

\* DonchianSignalDetector.calculateSignalStrength: the five parts weighted
\* 0.3, 0.25, 0.2, 0.15 and 0.1.
CalculateSignalStrength(klines, channel, atrData, cfg) ==
    IF Len(klines) < 2 \/ ~channel.ok \/ ~atrData.ok THEN Frac(0, 1)
    ELSE LET latest == klines[Len(klines)]
             previous == klines[Len(klines) - 1]
         IN SumFrac(<<
                FracMul(CalculateBreakoutStrength(latest, channel), 3, 10),
                Frac(CalculateVolumeStrength(latest, previous,
                                             cfg.volumeMultiplier), 4),
                FracMul(CalculateATRStrength(atrData, klines, cfg.atrLength), 1, 5),
                FracMul(CalculateCandleStrength(latest), 3, 20),
                FracMul(CalculatePositionStrength(latest, channel), 1, 10)>>)

\* A variant of GetRequiredBars that asks for one candle fewer.
GetRequiredBarsShort(cfg) ==
    cfg.consolidationBars + cfg.donchianLength + cfg.donchianOffset
        + cfg.atrLength + ATRSlopeWindow - 1

\* DonchianSignalDetector.getRequiredBars, DonchianEngine.getRequiredBars
GetRequiredBars(cfg) ==
    cfg.consolidationBars + cfg.donchianLength + cfg.donchianOffset
        + cfg.atrLength + ATRSlopeWindow

\* latest.Volume / previous.Volume as float64 division gives it.
VolumeRatio(latest, previous) ==
    IF previous.volume # 0
    THEN [kind |-> "number", value |-> Frac(latest.volume, previous.volume)]
    ELSE [kind |-> IF latest.volume = 0 THEN "NaN" ELSE "+Inf",
          value |-> Frac(0, 1)]

\* A variant of StrengthTooLow that lets every strength through.
StrengthTooLowNever(signalStrength, minSignalStrength) == FALSE

\* DetectSignal: signalStrength < dsd.config.MinSignalStrength
StrengthTooLow(signalStrength, minSignalStrength) ==
    FracLess(signalStrength, minSignalStrength)

\* DetectSignal from its step 1 on, the ATR data and the channel computed.
DetectWith(symbol, klines, cfg, atrData, channel, signalStrength) ==
    IF ~DetectConsolidation(klines, cfg.consolidationBars) THEN NoSignal
    ELSE IF ~atrData.ok THEN NoSignal
    ELSE IF ~IsATRDecreasing(atrData, klines, cfg.atrLength) THEN NoSignal
    ELSE IF ~channel.ok THEN NoSignal
    ELSE IF CalculateBreakout(klines, channel) = "" THEN NoSignal
    ELSE IF ~IsValidBreakout(klines, channel, cfg.volumeMultiplier) THEN NoSignal
    ELSE IF StrengthTooLow(signalStrength, cfg.minSignalStrength) THEN NoSignal
    ELSE [symbol |-> symbol,
          signalType |-> CalculateBreakout(klines, channel),
          price |-> Last(klines).close,
          volume |-> Last(klines).volume,
          volumeRatio |-> VolumeRatio(Last(klines), klines[Len(klines) - 1]),
          donchianUpper |-> channel.upper,
          atrValue |-> atrData.value,
          consolidationBars |-> cfg.consolidationBars,
          signalStrength |-> signalStrength,
          signalTime |-> Last(klines).closeTime]

\* The strength DetectSignal computes in its step 6.
StrengthOf(klines, cfg, atrData, channel) ==
    CalculateSignalStrength(klines, channel, atrData, cfg)

\* The rest of DetectSignal once the ATR data and the channel are there.
DetectOn(symbol, klines, cfg, atrData, channel) ==
    DetectWith(symbol, klines, cfg, atrData, channel,
               StrengthOf(klines, cfg, atrData, channel))

\* DonchianSignalDetector.DetectSignal
DetectSignal(symbol, klines, cfg) ==
    IF Len(klines) < GetRequiredBars(cfg) THEN NoSignal
    ELSE DetectOn(symbol, klines, cfg,
                  ATRCalculate(klines, cfg.atrLength),
                  DonchianCalculate(klines, cfg.donchianLength,
                                    cfg.donchianOffset))

\* strategy.donchian: short lengths, volume_multiplier 1.5, and
\* min_signal_strength at its default 0.7 or at 60.
DetectorConfigs ==
    {[consolidationBars |-> 2, donchianLength |-> 2, donchianOffset |-> 1,
      atrLength |-> 2, volumeMultiplier |-> Frac(3, 2),
      minSignalStrength |-> m] : m \in {Frac(7, 10), Frac(60, 1)}}
\* The configuration the engine runs with.
EngineConfig ==
    CHOOSE cfg \in DetectorConfigs : cfg.minSignalStrength = Frac(7, 10)

\* types.KLine
Candle(symbol, t, o, h, l, c, v) ==
    [symbol |-> symbol, openTime |-> t, closeTime |-> t + 1,
     open |-> o, high |-> h, low |-> l, close |-> c, volume |-> v,
     interval |-> "1m"]

\* How the candles before the last one ran: narrow throughout, wide at first
\* and narrow since, or narrow at first and wide of late.
Shapes == {"calm", "cooling", "heating"}
\* n candles of a shape, every one with volume v, the last opening a minute
\* before minute 0.
Earlier(symbol, shape, n, v) ==
    [i \in 1..n |->
        LET wide == IF shape = "cooling" THEN i <= 12
                    ELSE IF shape = "heating" THEN i > n - 12
                    ELSE FALSE
        IN IF wide THEN Candle(symbol, i - n - 1, 100, 103, 98, 100, v)
           ELSE Candle(symbol, i - n - 1, 100, 101, 100, 100, v)]
\* The last candle, <<open, high, low, close>>: the streamed closed candle,
\* which rises out of the channel; one that falls out of it; one inside it;
\* one that closes above it but under its own open.
LastBars == {<<ClosedOpen, ClosedPrice, ClosedOpen, ClosedPrice>>,
             <<100, 100, 97, 97>>,
             <<100, 101, 100, 100>>,
             <<105, 105, 102, 102>>}
\* Volumes: a streamed candle has none, a fetched one has some.
EarlierVolumes == {0, 10}
LastVolumes == {0, 10, 40}
\* The snapshots DetectSignal is tried on under a configuration: as many
\* candles as it requires, or one fewer.
Histories(cfg) ==
    {Append(Earlier("BTC-USDT", shape, GetRequiredBars(cfg) - 1 - short, ev),
            Candle("BTC-USDT", 0, b[1], b[2], b[3], b[4], lv)) :
        shape \in Shapes, short \in {0, 1}, ev \in EarlierVolumes,
        b \in LastBars, lv \in LastVolumes}

\* NewDonchianEngine: the engine before Start.
NewDonchianEngine ==
    /\ config = EngineConfig
    /\ klineBuffer = [s \in WsSymbols |-> <<>>]
    /\ engineChan = <<>>
    /\ signalChan = <<>>
    /\ workerPc = [w \in 1..WorkerCount |-> "idle"]
    /\ workerKline = [w \in 1..WorkerCount |-> NoKline]
    /\ workerSignal = [w \in 1..WorkerCount |-> NoSignal]
    /\ processedKlines = 0
    /\ detectedSignals = 0
    /\ savedSignals = <<>>

\* DetectSignal not called.
DetectorAtRest ==
    /\ snapshot = <<>>
    /\ detected = NoSignal
    /\ detectPc = "ready"

\* NewClient: the streamer before DonchianEngine.Start.
NewClient ==
    /\ wsNow = 0
    /\ conn = 0
    /\ isConnected = FALSE
    /\ dialled = 0
    /\ dead = {}
    /\ wire = [c \in 1..MaxConns |-> <<>>]
    /\ reconnectChan = 0
    /\ klineChan = <<>>
    /\ latestKlines = [s \in WsSymbols |-> NoKline]
    /\ symbols = <<>>
    /\ interval = ""
    /\ tickers = <<>>
    /\ processors = <<>>
    /\ startPc = "new"
    /\ readPc = "top"
    /\ readConn = 0
    /\ message = NoMessage
    /\ rcPc = "wait"
    /\ reconnectAttempts = 0
    /\ failedInARow = 0
    /\ placed = [s \in WsSymbols |-> 0]

AlarmInit ==
    /\ wsConfig = [symbols |-> <<>>, interval |-> ""]
    /\ NewClient
    /\ NewDonchianEngine
    /\ DetectorAtRest
    /\ StoreAtRest
    /\ SchedulerAtRest
    /\ now = 0
    /\ monitorPeriod \in MonitorPeriods
    /\ backend \in Backends
    /\ priceHistory = [s \in AlarmSymbols |-> <<>>]
    /\ alertHistory = [s \in AlarmSymbols |-> NoTime]
    /\ runPc = "idle"
    /\ symPc = [s \in AlarmSymbols |-> "none"]
    /\ current = [s \in AlarmSymbols |-> NoPoint]
    /\ past = [s \in AlarmSymbols |-> NoPoint]
    /\ seen = [s \in AlarmSymbols |-> [last |-> NoTime, at |-> NoTime]]
    /\ verdict = [s \in AlarmSymbols |-> "none"]
    /\ pending = [s \in AlarmSymbols |-> NoAlert]
    /\ alerts = <<>>
    /\ calls = <<>>
    /\ alertLog = [s \in AlarmSymbols |-> <<>>]
    /\ failedAt = [s \in AlarmSymbols |-> NoTime]

AlarmNext ==
    \/ Tick
    \/ FetchAndStore
    \/ StartRun
    \/ \E s \in AlarmSymbols : AnalyzeSymbol(s)
    \/ \E s \in AlarmSymbols : AnalyzeRecord(s)
    \/ \E s \in AlarmSymbols : AnalyzeAppend(s)
    \/ FanInDone
    \/ SendRun
    \/ ReturnRun

SpecAlarm == AlarmInit /\ [][AlarmNext]_vars

\* The analysis over a notifier that returns its errors to the analyzer.
AnalyzerInit ==
    /\ wsConfig = [symbols |-> <<>>, interval |-> ""]
    /\ NewClient
    /\ NewDonchianEngine
    /\ DetectorAtRest
    /\ StoreAtRest
    /\ SchedulerAtRest
    /\ now = 0
    /\ monitorPeriod \in MonitorPeriods
    /\ backend = "interface"
    /\ priceHistory = [s \in AlarmSymbols |-> <<>>]
    /\ alertHistory = [s \in AlarmSymbols |-> NoTime]
    /\ runPc = "idle"
    /\ symPc = [s \in AlarmSymbols |-> "none"]
    /\ current = [s \in AlarmSymbols |-> NoPoint]
    /\ past = [s \in AlarmSymbols |-> NoPoint]
    /\ seen = [s \in AlarmSymbols |-> [last |-> NoTime, at |-> NoTime]]
    /\ verdict = [s \in AlarmSymbols |-> "none"]
    /\ pending = [s \in AlarmSymbols |-> NoAlert]
    /\ alerts = <<>>
    /\ calls = <<>>
    /\ alertLog = [s \in AlarmSymbols |-> <<>>]
    /\ failedAt = [s \in AlarmSymbols |-> NoTime]

AnalyzerNext == AlarmNext

SpecAnalyzer == AnalyzerInit /\ [][AnalyzerNext]_vars

\* The store alone with its callers: NewStateManager, nothing stored.
StoreInit ==
    /\ wsConfig = [symbols |-> <<>>, interval |-> ""]
    /\ NewClient
    /\ NewDonchianEngine
    /\ DetectorAtRest
    /\ StoreAtRest
    /\ SchedulerAtRest
    /\ now = 0
    /\ monitorPeriod \in StorePeriods
    /\ backend = "console"
    /\ priceHistory = [s \in AlarmSymbols |-> <<>>]
    /\ alertHistory = [s \in AlarmSymbols |-> NoTime]
    /\ runPc = "idle"
    /\ symPc = [s \in AlarmSymbols |-> "none"]
    /\ current = [s \in AlarmSymbols |-> NoPoint]
    /\ past = [s \in AlarmSymbols |-> NoPoint]
    /\ seen = [s \in AlarmSymbols |-> [last |-> NoTime, at |-> NoTime]]
    /\ verdict = [s \in AlarmSymbols |-> "none"]
    /\ pending = [s \in AlarmSymbols |-> NoAlert]
    /\ alerts = <<>>
    /\ calls = <<>>
    /\ alertLog = [s \in AlarmSymbols |-> <<>>]
    /\ failedAt = [s \in AlarmSymbols |-> NoTime]

StoreNext ==
    \/ \E c \in Callers : StoreCall(c)
    \/ \E c \in Callers : StoreLock(c)
    \/ \E c \in Callers : StoreCreate(c)
    \/ \E c \in Callers : StoreAdd(c)
    \/ \E s \in AlarmSymbols : CallGetPriceData(s)
    \/ StoreClock

SpecStore == StoreInit /\ [][StoreNext]_vars

\* The store and its callers over more minutes than the window's age.
TrimInit == StoreInit

TrimNext ==
    \/ \E c \in Callers : StoreCall(c)
    \/ \E c \in Callers : StoreLock(c)
    \/ \E c \in Callers : StoreCreate(c)
    \/ \E c \in Callers : StoreAdd(c)
    \/ TrimClock

SpecTrim == TrimInit /\ [][TrimNext]_vars

\* The scheduler alone: NewScheduler, at some time of day.
SchedulerInit ==
    /\ wsConfig = [symbols |-> <<>>, interval |-> ""]
    /\ NewClient
    /\ NewDonchianEngine
    /\ DetectorAtRest
    /\ StoreAtRest
    /\ now = 0
    /\ monitorPeriod = 0
    /\ backend = "console"
    /\ priceHistory = [s \in AlarmSymbols |-> <<>>]
    /\ alertHistory = [s \in AlarmSymbols |-> NoTime]
    /\ runPc = "idle"
    /\ symPc = [s \in AlarmSymbols |-> "none"]
    /\ current = [s \in AlarmSymbols |-> NoPoint]
    /\ past = [s \in AlarmSymbols |-> NoPoint]
    /\ seen = [s \in AlarmSymbols |-> [last |-> NoTime, at |-> NoTime]]
    /\ verdict = [s \in AlarmSymbols |-> "none"]
    /\ pending = [s \in AlarmSymbols |-> NoAlert]
    /\ alerts = <<>>
    /\ calls = <<>>
    /\ alertLog = [s \in AlarmSymbols |-> <<>>]
    /\ failedAt = [s \in AlarmSymbols |-> NoTime]
    /\ schedPc = "new"
    /\ cancelled = FALSE
    /\ schedNow \in StartTimes
    /\ schedPeriod \in SchedPeriods
    /\ nextTime = NoInstant
    /\ calcAt = NoTime
    /\ runs = 0
    /\ ranAt = <<>>
    /\ fetcherStarted = FALSE
    /\ AppAtRest
    /\ PollerAtRest
    /\ RenderAtRest
    /\ PersistAtRest
    /\ DonchianAtRest

\* The steps the scheduler's goroutine takes by itself.
SchedulerSteps ==
    \/ SchedStart
    \/ FirstCancel
    \/ FirstWake
    \/ LoopTop
    \/ RunEnd
    \/ SleepCancel
    \/ SleepWake

SchedulerNext ==
    \/ SchedulerSteps
    \/ PassToTimer
    \/ Cancel

SpecScheduler == SchedulerInit /\ [][SchedulerNext]_vars

\* The goroutine is scheduled as long as it can take a step.
SpecSchedulerFair == SpecScheduler /\ WF_vars(SchedulerSteps)

\* initializeHistoryData: the number of candles asked for per symbol.
HistoryLimit(cfg) == cfg.consolidationBars + cfg.donchianLength + cfg.atrLength + 10

\* initializeHistoryData: the buffer of every symbol whose history came back
\* is replaced by the candles fetched, as many as were asked for; got tells
\* for which symbols it came back.
InitializeHistoryData(buffer, cfg, got) ==
    [s \in WsSymbols |->
        IF s \in DOMAIN got /\ got[s]
        THEN Earlier(s, "calm", HistoryLimit(cfg), 10)
        ELSE buffer[s]]

\* DonchianEngine.Start, step 1: initializeHistoryData.
\* FetchMultipleSymbolsHistory logs a failed request and goes on, and never
\* returns an error, so this step always succeeds.
EngineHistory ==
    /\ ProcessAlive
    /\ stratPc = "history"
    /\ \E got \in [Range(wsConfig.symbols) -> BOOLEAN] :
          klineBuffer' = InitializeHistoryData(klineBuffer, config, got)
    /\ stratPc' = "connect"
    /\ UNCHANGED <<rootLive, dbOpen, wsOpen, engineTasks, stopLog, process>>
    /\ UNCHANGED <<config, engineChan, signalChan, workerPc, workerKline,
                   workerSignal, processedKlines, detectedSignals, savedSignals>>
    /\ UNCHANGED <<schedVars, alarmVars, wsVars, detectorVars, storeVars,
                   pollVars, renderVars, persistVars, donchianVars>>

\* The application: both goroutines of App.Start in one process.
AppInit == SchedulerInit

\* The steps of the strategy goroutine and of the engine's goroutines.
StrategySteps ==
    \/ EngineCreate
    \/ EngineHistory
    \/ EngineConnect
    \/ EngineSubscribe
    \/ StopCancel
    \/ StopCloseClient
    \/ TasksExit
    \/ StopDrained
    \/ StopTimeout
    \/ StopCloseStore

AppNext ==
    \/ SchedulerNext
    \/ StrategySteps
    \/ ProcessExit

SpecApp == AppInit /\ [][AppNext]_vars

\* ------------------------------------------------------------ streamer

\* A variant of TrySend that makes room by dropping the oldest item.
TrySendDropsOldest(ch, item, cap) ==
    IF Len(ch) < cap THEN Append(ch, item) ELSE Append(Tail(ch), item)

\* A non-blocking channel send (select with default): the item is queued
\* when there is room and dropped when there is none.
TrySend(ch, item, cap) == IF Len(ch) < cap THEN Append(ch, item) ELSE ch

\* Client.parseIntervalToDuration, minutes.
ParseIntervalToDuration(intv) ==
    CASE intv = "1m" -> 1
      [] intv = "3m" -> 3
      [] intv = "5m" -> 5
      [] OTHER -> DefaultDuration

\* Client.Subscribe: the OKXSubscription it writes.
SubscribeMessage(syms, intv) ==
    [op |-> "subscribe",
     args |-> [i \in 1..Len(syms) |->
                  [channel |-> [prefix |-> "mark-price-candle", interval |-> intv],
                   instId |-> syms[i]]]]

\* Rows the exchange may push at minute t, [ts, open, high, low, close,
\* confirm]: the closed candle, the candle still forming, whose prices no
\* closed candle has, and a row cut short.
Rows(t) ==
    {<<t, ClosedOpen, ClosedPrice, ClosedOpen, ClosedPrice, "1">>,
     <<t, FormingPrice, FormingPrice, FormingPrice, FormingPrice, "0">>,
     <<t, FormingPrice, FormingPrice, FormingPrice, FormingPrice>>}

\* Messages the exchange may push at minute t on a connection subscribed
\* with sub: one row, or a forming row before a closed one, for a subscribed
\* instrument, and a message of another channel.
Messages(t, sub) ==
    LET forming == <<t, FormingPrice, FormingPrice, FormingPrice, FormingPrice, "0">>
        closed == <<t, ClosedOpen, ClosedPrice, ClosedOpen, ClosedPrice, "1">>
        candle == {[instId |-> sub.args[i].instId,
                    channel |-> sub.args[i].channel,
                    data |-> d] :
                      i \in 1..Len(sub.args),
                      d \in {<<r>> : r \in Rows(t)} \cup {<<forming, closed>>}}
        other == {[instId |-> sub.args[1].instId,
                   channel |-> [prefix |-> "tickers", interval |-> ""],
                   data |-> <<closed>>]}
    IN candle \cup other

\* Client.parseOKXKlineData: the volume is set to 0, the close time is the open
\* time plus the channel's interval.
ParseOKXKlineData(symbol, data, channel) ==
    [symbol |-> symbol,
     openTime |-> data[1],
     closeTime |-> data[1] + ParseIntervalToDuration(channel.interval),
     open |-> data[2], high |-> data[3], low |-> data[4], close |-> data[5],
     volume |-> 0,
     interval |-> channel.interval]

\* A variant of IsConfirmed that takes every row for a closed candle.
IsConfirmedAlways(data) == Len(data) >= 6

\* cacheKlineData: a row is taken when it has six fields and data[5] is "1".
IsConfirmed(data) == Len(data) >= 6 /\ data[6] = "1"

\* Client.cacheKlineData, on the cache: every confirmed row of a candle
\* message replaces the cached candle of its instrument.
RECURSIVE CacheRows(_, _, _, _)
CacheRows(cache, instId, channel, data) ==
    IF Len(data) = 0 THEN cache
    ELSE LET next == IF IsConfirmed(data[1])
                     THEN [cache EXCEPT ![instId] =
                              ParseOKXKlineData(instId, data[1], channel)]
                     ELSE cache
         IN CacheRows(next, instId, channel, Tail(data))

CacheKlineData(cache, msg) ==
    IF msg.channel.prefix # "mark-price-candle" THEN cache
    ELSE CacheRows(cache, msg.instId, msg.channel, msg.data)

\* Client.handleDisconnect: close and forget the connection held now, and
\* queue a reconnect token unless one is queued.
HandleDisconnect ==
    /\ dead' = IF conn # 0 THEN dead \cup {conn} ELSE dead
    /\ conn' = 0
    /\ isConnected' = FALSE
    /\ reconnectChan' = IF reconnectChan < ReconnectChanCap
                        THEN reconnectChan + 1 ELSE reconnectChan

\* Client.startIntervalProcessor: a new ticker replaces c.ticker and a new
\* goroutine waits on it; nothing stops the goroutines started before.
StartIntervalProcessor(intv) ==
    /\ tickers' = Append(tickers, [start |-> wsNow,
                                   duration |-> ParseIntervalToDuration(intv),
                                   pending |-> FALSE])
    /\ processors' = Append(processors, [waiting |-> Len(tickers) + 1])

\* Client.Subscribe returns an error.
SubscribeFails == ~isConnected \/ conn = 0 \/ conn \in dead

\* Client.Subscribe
Subscribe(syms, intv) ==
    IF ~isConnected \/ conn = 0
    THEN UNCHANGED <<symbols, interval, wire, tickers, processors>>
    ELSE /\ symbols' = syms
         /\ interval' = intv
         /\ IF conn \in dead
            THEN UNCHANGED <<wire, tickers, processors>>
            ELSE /\ wire' = [wire EXCEPT ![conn] =
                                Append(@, SubscribeMessage(syms, intv))]
                 /\ StartIntervalProcessor(intv)

\* A variant of HasSymbols with which a reconnect never subscribes again.
HasSymbolsNever(syms) == FALSE

\* reconnectLoop: len(c.symbols) > 0
HasSymbols(syms) == Len(syms) > 0

\* A variant of AttemptsExhausted that gives up one attempt later.
AttemptsExhaustedLate(n) == n > MaxReconnectAttempts + 1

\* reconnectLoop: reconnectAttempts > c.config.MaxReconnectAttempts
AttemptsExhausted(n) == n > MaxReconnectAttempts

\* DonchianEngine.Start, the streamer's part: Connect, Subscribe with the
\* configured symbols and interval, StartReading.  A failed dial or a failed
\* subscribe ends the start with an error.
Start ==
    /\ startPc = "new"
    /\ \E dialOk \in BOOLEAN, writeOk \in BOOLEAN :
          IF ~dialOk
          THEN /\ startPc' = "failed"
               /\ UNCHANGED <<conn, isConnected, dialled, dead, wire, symbols,
                              interval, tickers, processors>>
          ELSE /\ conn' = dialled + 1
               /\ dialled' = dialled + 1
               /\ isConnected' = TRUE
               /\ symbols' = wsConfig.symbols
               /\ interval' = wsConfig.interval
               /\ IF writeOk
                  THEN /\ wire' = [wire EXCEPT ![dialled + 1] =
                                      Append(@, SubscribeMessage(wsConfig.symbols,
                                                                 wsConfig.interval))]
                       /\ StartIntervalProcessor(wsConfig.interval)
                       /\ startPc' = "reading"
                       /\ dead' = dead
                  ELSE /\ dead' = dead \cup {dialled + 1}
                       /\ startPc' = "failed"
                       /\ UNCHANGED <<wire, tickers, processors>>
    /\ UNCHANGED <<wsConfig, wsNow, reconnectChan, klineChan, latestKlines,
                   readPc, readConn, message, rcPc, reconnectAttempts,
                   failedInARow, placed>>
    /\ UNCHANGED beyondStreamer

\* The network takes a connection down.
Break ==
    /\ \E c \in {conn, readConn} \ ({0} \cup dead) : dead' = dead \cup {c}
    /\ UNCHANGED <<wsConfig, wsNow, conn, isConnected, dialled, wire,
                   reconnectChan, klineChan, latestKlines, symbols, interval,
                   tickers, processors, startPc, readPc, readConn, message, rcPc,
                   reconnectAttempts, failedInARow, placed>>
    /\ UNCHANGED beyondStreamer

\* readLoop, the top of an iteration: conn := c.conn; the read begins unless
\* conn is nil, and then the loop sleeps and starts over.
ReadLoopTop ==
    /\ startPc = "reading"
    /\ readPc = "top"
    /\ readConn' = conn
    /\ message' = NoMessage
    /\ readPc' = IF conn = 0 THEN "top" ELSE "reading"
    /\ UNCHANGED <<wsConfig, wsNow, conn, isConnected, dialled, dead, wire,
                   reconnectChan, klineChan, latestKlines, symbols, interval,
                   tickers, processors, startPc, rcPc, reconnectAttempts,
                   failedInARow, placed>>
    /\ UNCHANGED beyondStreamer

\* readLoop: ReadMessage returns a message, cacheKlineData takes it.
ReadMessage ==
    /\ readPc = "reading"
    /\ readConn \notin dead
    /\ wire[readConn] # <<>>
    /\ \E msg \in UNION {Messages(t, Last(wire[readConn])) : t \in RowTimes} :
          /\ message' = msg
          /\ latestKlines' = CacheKlineData(latestKlines, msg)
    /\ readPc' = "top"
    /\ UNCHANGED <<wsConfig, wsNow, conn, isConnected, dialled, dead, wire,
                   reconnectChan, klineChan, symbols, interval, tickers,
                   processors, startPc, readConn, rcPc, reconnectAttempts,
                   failedInARow, placed>>
    /\ UNCHANGED beyondStreamer

\* readLoop: ReadMessage fails on the connection it read from, handleDisconnect.
ReadError ==
    /\ readPc = "reading"
    /\ readConn \in dead
    /\ HandleDisconnect
    /\ message' = NoMessage
    /\ readPc' = "top"
    /\ UNCHANGED <<wsConfig, wsNow, dialled, wire, klineChan, latestKlines,
                   symbols, interval, tickers, processors, startPc, readConn,
                   rcPc, reconnectAttempts, failedInARow, placed>>
    /\ UNCHANGED beyondStreamer

\* pingLoop: the ping written to a connection that is down fails, handleDisconnect.
PingFails ==
    /\ startPc = "reading"
    /\ isConnected
    /\ conn # 0
    /\ conn \in dead
    /\ HandleDisconnect
    /\ UNCHANGED <<wsConfig, wsNow, dialled, wire, klineChan, latestKlines,
                   symbols, interval, tickers, processors, startPc, readPc,
                   readConn, message, rcPc, reconnectAttempts, failedInARow,
                   placed>>
    /\ UNCHANGED beyondStreamer

\* reconnectLoop takes a token: one more attempt, given up when the attempts
\* are exhausted, else Connect, whose dial the network lets through or not.
ReconnectTake(dialOk) ==
    /\ startPc = "reading"
    /\ rcPc = "wait"
    /\ reconnectChan > 0
    /\ reconnectChan' = reconnectChan - 1
    /\ reconnectAttempts' = reconnectAttempts + 1
    /\ IF AttemptsExhausted(reconnectAttempts + 1)
       THEN /\ rcPc' = "stopped"
            /\ UNCHANGED <<conn, isConnected, dialled, failedInARow>>
       ELSE IF dialOk
            THEN /\ dialled < MaxConns
                 /\ conn' = dialled + 1
                 /\ dialled' = dialled + 1
                 /\ isConnected' = TRUE
                 /\ failedInARow' = 0
                 /\ rcPc' = "subscribe"
            ELSE /\ failedInARow' = failedInARow + 1
                 /\ rcPc' = "resend"
                 /\ UNCHANGED <<conn, isConnected, dialled>>
    /\ UNCHANGED <<wsConfig, wsNow, dead, wire, klineChan, latestKlines, symbols,
                   interval, tickers, processors, startPc, readPc, readConn,
                   message, placed>>
    /\ UNCHANGED beyondStreamer

\* reconnectLoop after a failed Connect: the sleep, then the blocking send of
\* a token to itself.
ReconnectResend ==
    /\ rcPc = "resend"
    /\ reconnectChan < ReconnectChanCap
    /\ reconnectChan' = reconnectChan + 1
    /\ rcPc' = "wait"
    /\ UNCHANGED <<wsConfig, wsNow, conn, isConnected, dialled, dead, wire,
                   klineChan, latestKlines, symbols, interval, tickers,
                   processors, startPc, readPc, readConn, message,
                   reconnectAttempts, failedInARow, placed>>
    /\ UNCHANGED beyondStreamer

\* reconnectLoop after Connect succeeded: Subscribe again with the stored
\* symbols and interval, its error only logged, and the attempts are reset.
ReconnectSubscribe ==
    /\ rcPc = "subscribe"
    /\ IF HasSymbols(symbols)
       THEN Subscribe(symbols, interval)
       ELSE UNCHANGED <<symbols, interval, wire, tickers, processors>>
    /\ reconnectAttempts' = 0
    /\ rcPc' = "wait"
    /\ UNCHANGED <<wsConfig, wsNow, conn, isConnected, dialled, dead,
                   reconnectChan, klineChan, latestKlines, startPc, readPc,
                   readConn, message, failedInARow, placed>>
    /\ UNCHANGED beyondStreamer

\* A minute passes: every ticker whose period ends fires into its channel of
\* capacity one, and a new candle interval starts the count of placed candles
\* anew.  A tick a goroutine waits for is served before the clock moves on.
WsTick ==
    /\ wsNow < MaxClock
    /\ \A g \in 1..Len(processors) : ~tickers[processors[g].waiting].pending
    /\ wsNow' = wsNow + 1
    /\ tickers' = [i \in 1..Len(tickers) |->
                      IF (wsNow + 1 - tickers[i].start) % tickers[i].duration = 0
                      THEN [tickers[i] EXCEPT !.pending = TRUE]
                      ELSE tickers[i]]
    /\ placed' = IF (wsNow + 1) % ParseIntervalToDuration(interval) = 0
                 THEN [s \in WsSymbols |-> 0]
                 ELSE placed
    /\ UNCHANGED <<wsConfig, conn, isConnected, dialled, dead, wire,
                   reconnectChan, klineChan, latestKlines, symbols, interval,
                   processors, startPc, readPc, readConn, message, rcPc,
                   reconnectAttempts, failedInARow>>
    /\ UNCHANGED beyondStreamer

\* The orders in which a range over the map may visit the cached candles.
Orders(cache) ==
    LET have == {s \in WsSymbols : cache[s] # NoKline}
    IN {q \in [1..Cardinality(have) -> have] :
           \A i, j \in 1..Cardinality(have) : q[i] = q[j] => i = j}

\* Client.processLatestKlines, on the channel: every cached candle is offered
\* with a non-blocking send.
RECURSIVE ProcessLatestKlines(_, _, _)
ProcessLatestKlines(ch, cache, order) ==
    IF Len(order) = 0 THEN ch
    ELSE ProcessLatestKlines(TrySend(ch, cache[order[1]], KlineChanCap),
                             cache, Tail(order))

\* A goroutine of startIntervalProcessor receives the tick it waits for, runs
\* processLatestKlines and selects again on c.ticker.C; that read of c.ticker
\* races with Subscribe's write, so it sees the ticker it knew or the last made.
IntervalTick(g) ==
    /\ g \in 1..Len(processors)
    /\ tickers[processors[g].waiting].pending
    /\ tickers' = [tickers EXCEPT ![processors[g].waiting].pending = FALSE]
    /\ \E order \in Orders(latestKlines) :
          /\ klineChan' = ProcessLatestKlines(klineChan, latestKlines, order)
          /\ placed' = [s \in WsSymbols |->
                           placed[s] + Cardinality({i \in (Len(klineChan) + 1)..Len(klineChan') :
                                                       klineChan'[i].symbol = s})]
    /\ \E seenTicker \in {processors[g].waiting, Len(tickers)} :
          processors' = [processors EXCEPT ![g].waiting = seenTicker]
    /\ UNCHANGED <<wsConfig, wsNow, conn, isConnected, dialled, dead, wire,
                   reconnectChan, latestKlines, symbols, interval, startPc,
                   readPc, readConn, message, rcPc, reconnectAttempts,
                   failedInARow>>
    /\ UNCHANGED beyondStreamer

\* The reader of GetKlineChannel takes the candle at the head.
TakeKline ==
    /\ Len(klineChan) > 0
    /\ klineChan' = Tail(klineChan)
    /\ UNCHANGED <<wsConfig, wsNow, conn, isConnected, dialled, dead, wire,
                   reconnectChan, latestKlines, symbols, interval, tickers,
                   processors, startPc, readPc, readConn, message, rcPc,
                   reconnectAttempts, failedInARow, placed>>
    /\ UNCHANGED beyondStreamer

\* The alarm pipeline at rest.
AlarmAtRest ==
    /\ now = 0
    /\ monitorPeriod = 0
    /\ backend = "console"
    /\ priceHistory = [s \in AlarmSymbols |-> <<>>]
    /\ alertHistory = [s \in AlarmSymbols |-> NoTime]
    /\ runPc = "idle"
    /\ symPc = [s \in AlarmSymbols |-> "none"]
    /\ current = [s \in AlarmSymbols |-> NoPoint]
    /\ past = [s \in AlarmSymbols |-> NoPoint]
    /\ seen = [s \in AlarmSymbols |-> [last |-> NoTime, at |-> NoTime]]
    /\ verdict = [s \in AlarmSymbols |-> "none"]
    /\ pending = [s \in AlarmSymbols |-> NoAlert]
    /\ alerts = <<>>
    /\ calls = <<>>
    /\ alertLog = [s \in AlarmSymbols |-> <<>>]
    /\ failedAt = [s \in AlarmSymbols |-> NoTime]
    /\ StoreAtRest
    /\ SchedulerAtRest

StreamerInit ==
    /\ wsConfig \in [symbols : SymbolLists, interval : Intervals]
    /\ NewClient
    /\ NewDonchianEngine
    /\ DetectorAtRest
    /\ AlarmAtRest

\* The streamer with its data path, on a network that lets every dial of
\* reconnectLoop through.
StreamerNext ==
    \/ Start
    \/ Break
    \/ ReadLoopTop
    \/ ReadMessage
    \/ ReadError
    \/ PingFails
    \/ ReconnectTake(TRUE)
    \/ ReconnectSubscribe
    \/ WsTick
    \/ \E g \in 1..MaxConns : IntervalTick(g)
    \/ TakeKline

SpecStreamer == StreamerInit /\ [][StreamerNext]_vars

\* The streamer's connection handling on a network that may refuse any dial,
\* while the exchange pushes nothing.
ReconnectNext ==
    \/ Start
    \/ Break
    \/ ReadLoopTop
    \/ ReadError
    \/ PingFails
    \/ \E dialOk \in BOOLEAN : ReconnectTake(dialOk)
    \/ ReconnectResend
    \/ ReconnectSubscribe

SpecReconnect == StreamerInit /\ [][ReconnectNext]_vars

\* A notifier that has sent nothing yet.
RenderInit ==
    /\ AlarmAtRest
    /\ wsConfig = [symbols |-> <<>>, interval |-> ""]
    /\ NewClient
    /\ NewDonchianEngine
    /\ DetectorAtRest

RenderNext == RenderBatch

SpecRender == RenderInit /\ [][RenderNext]_vars

\* The poller alone, its context cancelled at any moment.
PollerInit == AlarmAtRest /\ wsConfig = [symbols |-> <<>>, interval |-> ""]
              /\ NewClient /\ NewDonchianEngine /\ DetectorAtRest

PollerNext ==
    \/ PollStart
    \/ HttpAttempt
    \/ PollTick
    \/ PollCancel
    \/ Cancel

SpecPoller == PollerInit /\ [][PollerNext]_vars

\* ------------------------------------------------------------ engine
\* The streamer's variables other than its output channel.
wsVarsButKlineChan ==
    <<wsConfig, wsNow, conn, isConnected, dialled, dead, wire, reconnectChan,
      latestKlines, symbols, interval, tickers, processors, startPc, readPc,
      readConn, message, rcPc, reconnectAttempts, failedInARow, placed>>

\* DonchianEngine.updateKlineBuffer
UpdateKlineBuffer(buffer, kline) ==
    LET grown == Append(buffer[kline.symbol], kline)
    IN [buffer EXCEPT ![kline.symbol] =
           IF Len(grown) > MaxBuffer THEN LastN(grown, MaxBuffer) ELSE grown]

\* DonchianEngine.klineCollector: a candle received from the streamer is
\* offered to the engine's candle channel with a non-blocking send.
KlineCollector ==
    /\ startPc = "reading"
    /\ Len(klineChan) > 0
    /\ klineChan' = Tail(klineChan)
    /\ engineChan' = TrySend(engineChan, Head(klineChan), EngineChanCap)
    /\ UNCHANGED <<config, klineBuffer, signalChan, workerPc, workerKline,
                   workerSignal, processedKlines, detectedSignals, savedSignals>>
    /\ UNCHANGED wsVarsButKlineChan
    /\ UNCHANGED beyondEngine

\* klineProcessor w receives a candle from the engine's candle channel.
WorkerTake(w) ==
    /\ startPc = "reading"
    /\ workerPc[w] = "idle"
    /\ Len(engineChan) > 0
    /\ engineChan' = Tail(engineChan)
    /\ workerKline' = [workerKline EXCEPT ![w] = Head(engineChan)]
    /\ workerPc' = [workerPc EXCEPT ![w] = "update"]
    /\ UNCHANGED <<config, klineBuffer, signalChan, workerSignal,
                   processedKlines, detectedSignals, savedSignals>>
    /\ UNCHANGED wsVars
    /\ UNCHANGED beyondEngine

\* processKline in klineProcessor w begins: updateKlineBuffer, under the
\* buffer's lock.
WorkerUpdate(w) ==
    /\ workerPc[w] = "update"
    /\ klineBuffer' = UpdateKlineBuffer(klineBuffer, workerKline[w])
    /\ workerPc' = [workerPc EXCEPT ![w] = "detect"]
    /\ UNCHANGED <<config, engineChan, signalChan, workerKline, workerSignal,
                   processedKlines, detectedSignals, savedSignals>>
    /\ UNCHANGED wsVars
    /\ UNCHANGED beyondEngine

\* processKline in klineProcessor w goes on: getKlineHistory, the length
\* check that may end it, DetectSignal on the copy.
WorkerDetect(w) ==
    /\ workerPc[w] = "detect"
    /\ IF Len(klineBuffer[workerKline[w].symbol]) < GetRequiredBars(config)
       THEN /\ workerPc' = [workerPc EXCEPT ![w] = "idle"]
            /\ workerKline' = [workerKline EXCEPT ![w] = NoKline]
            /\ UNCHANGED workerSignal
       ELSE /\ workerSignal' =
                  [workerSignal EXCEPT ![w] =
                      DetectSignal(workerKline[w].symbol,
                                   klineBuffer[workerKline[w].symbol], config)]
            /\ workerPc' = [workerPc EXCEPT ![w] = "send"]
            /\ UNCHANGED workerKline
    /\ UNCHANGED <<config, klineBuffer, engineChan, signalChan, processedKlines,
                   detectedSignals, savedSignals>>
    /\ UNCHANGED wsVars
    /\ UNCHANGED beyondEngine

\* processKline in klineProcessor w ends: a signal is offered to the signal
\* channel with a non-blocking send and counted when it was taken, and the
\* candle is counted.
WorkerSend(w) ==
    /\ workerPc[w] = "send"
    /\ signalChan' = IF workerSignal[w] = NoSignal THEN signalChan
                     ELSE TrySend(signalChan, workerSignal[w], SignalChanCap)
    /\ detectedSignals' =
          IF workerSignal[w] # NoSignal /\ Len(signalChan) < SignalChanCap
          THEN detectedSignals + 1 ELSE detectedSignals
    /\ processedKlines' = processedKlines + 1
    /\ workerSignal' = [workerSignal EXCEPT ![w] = NoSignal]
    /\ workerKline' = [workerKline EXCEPT ![w] = NoKline]
    /\ workerPc' = [workerPc EXCEPT ![w] = "idle"]
    /\ UNCHANGED <<config, klineBuffer, engineChan, savedSignals>>
    /\ UNCHANGED wsVars
    /\ UNCHANGED beyondEngine

\* signalProcessor receives a signal; processSignal hands it to the database.
SignalProcessor ==
    /\ Len(signalChan) > 0
    /\ signalChan' = Tail(signalChan)
    /\ savedSignals' = Append(savedSignals, Head(signalChan))
    /\ UNCHANGED <<config, klineBuffer, engineChan, workerPc, workerKline,
                   workerSignal, processedKlines, detectedSignals>>
    /\ UNCHANGED wsVars
    /\ UNCHANGED beyondEngine

\* The streamer after DonchianEngine.Start's Connect and Subscribe succeeded,
\* at minute t, its output channel holding ch and its cache holding cache.
StartedWith(t, ch, cache) ==
    /\ wsNow = t
    /\ conn = 1
    /\ isConnected = TRUE
    /\ dialled = 1
    /\ dead = {}
    /\ wire = [c \in 1..MaxConns |->
                  IF c = 1
                  THEN <<SubscribeMessage(wsConfig.symbols, wsConfig.interval)>>
                  ELSE <<>>]
    /\ reconnectChan = 0
    /\ klineChan = ch
    /\ latestKlines = cache
    /\ symbols = wsConfig.symbols
    /\ interval = wsConfig.interval
    /\ tickers = <<[start |-> 0,
                    duration |-> ParseIntervalToDuration(wsConfig.interval),
                    pending |-> FALSE]>>
    /\ processors = <<[waiting |-> 1]>>
    /\ startPc = "reading"
    /\ readPc = "top"
    /\ readConn = 0
    /\ message = NoMessage
    /\ rcPc = "wait"
    /\ reconnectAttempts = 0
    /\ failedInARow = 0
    /\ placed = [s \in WsSymbols |-> 0]

\* The streamer as DonchianEngine.Start leaves it when Connect and Subscribe
\* succeed.
Started == StartedWith(0, <<>>, [s \in WsSymbols |-> NoKline])

\* The engine in service: started, and the buffer of every subscribed symbol
\* one streamed candle short of what the detector requires.
EngineInit ==
    /\ wsConfig \in [symbols : SymbolLists, interval : Intervals]
    /\ Started
    /\ config = EngineConfig
    /\ klineBuffer \in
          [WsSymbols -> {<<>>} \cup
              UNION {{Earlier(s, shape, GetRequiredBars(EngineConfig) - 1, 0) :
                         shape \in {"calm", "cooling"}} : s \in WsSymbols}]
    /\ \A s \in WsSymbols :
          /\ klineBuffer[s] # <<>> => klineBuffer[s][1].symbol = s
          /\ klineBuffer[s] # <<>> <=> s \in Range(wsConfig.symbols)
    /\ engineChan = <<>>
    /\ signalChan = <<>>
    /\ workerPc = [w \in 1..WorkerCount |-> "idle"]
    /\ workerKline = [w \in 1..WorkerCount |-> NoKline]
    /\ workerSignal = [w \in 1..WorkerCount |-> NoSignal]
    /\ processedKlines = 0
    /\ detectedSignals = 0
    /\ savedSignals = <<>>
    /\ DetectorAtRest
    /\ AlarmAtRest

EngineNext ==
    \/ ReadLoopTop
    \/ ReadMessage
    \/ WsTick
    \/ \E g \in 1..MaxConns : IntervalTick(g)
    \/ KlineCollector
    \/ \E w \in 1..WorkerCount : WorkerTake(w)
    \/ \E w \in 1..WorkerCount : WorkerUpdate(w)
    \/ \E w \in 1..WorkerCount : WorkerDetect(w)
    \/ \E w \in 1..WorkerCount : WorkerSend(w)
    \/ SignalProcessor

SpecEngine == EngineInit /\ [][EngineNext]_vars

\* ------------------------------------------------ worker pool, by itself
\* The closed candle of minute t as the streamer parses it for symbol s.
Streamed(s, t) ==
    ParseOKXKlineData(s, <<t, ClosedOpen, ClosedPrice, ClosedOpen, ClosedPrice, "1">>,
                      [prefix |-> "mark-price-candle", interval |-> "1m"])
\* Minutes whose closed candles the streamer has emitted.
EmitTimes == {0, 1}
\* What processLatestKlines may have left on the output channel by then: per
\* symbol the cached candle of one interval and then that of a later one, or
\* the same candle again when no newer one was cached.
Emissions ==
    {q \in UNION {[1..n -> {Streamed(s, t) : s \in WsSymbols, t \in EmitTimes}] :
                     n \in 1..KlineChanCap} :
        \A i, j \in 1..Len(q) :
           (i < j /\ q[i].symbol = q[j].symbol) => q[i].openTime <= q[j].openTime}
\* The cache after those emissions: per symbol the candle emitted last.
CacheAfter(q) ==
    [s \in WsSymbols |->
        LET at == {i \in 1..Len(q) : q[i].symbol = s}
        IN IF at = {} THEN NoKline ELSE q[MaxOf(at)]]

\* The engine in service with candles waiting on the streamer's output
\* channel; a symbol's buffer is unseeded (its history fetch failed or came
\* back empty) or holds one or two candles fewer than the detector requires.
WorkersInit ==
    /\ wsConfig = [symbols |-> <<"BTC-USDT", "ETH-USDT">>, interval |-> "1m"]
    /\ \E q \in Emissions : StartedWith(MaxClock, q, CacheAfter(q))
    /\ config = EngineConfig
    /\ klineBuffer \in
          [WsSymbols -> {<<>>} \cup
              UNION {{Earlier(s, "calm", GetRequiredBars(EngineConfig) - 2, 0),
                      Earlier(s, "calm", GetRequiredBars(EngineConfig) - 1, 0),
                      Earlier(s, "cooling", GetRequiredBars(EngineConfig) - 1, 0)} :
                        s \in WsSymbols}]
    /\ \A s \in WsSymbols :
          klineBuffer[s] # <<>> => klineBuffer[s][1].symbol = s
    /\ engineChan = <<>>
    /\ signalChan = <<>>
    /\ workerPc = [w \in 1..WorkerCount |-> "idle"]
    /\ workerKline = [w \in 1..WorkerCount |-> NoKline]
    /\ workerSignal = [w \in 1..WorkerCount |-> NoSignal]
    /\ processedKlines = 0
    /\ detectedSignals = 0
    /\ savedSignals = <<>>
    /\ DetectorAtRest
    /\ AlarmAtRest

WorkersNext ==
    \/ KlineCollector
    \/ \E w \in 1..WorkerCount : WorkerTake(w)
    \/ \E w \in 1..WorkerCount : WorkerUpdate(w)
    \/ \E w \in 1..WorkerCount : WorkerDetect(w)
    \/ \E w \in 1..WorkerCount : WorkerSend(w)
    \/ SignalProcessor

SpecWorkers == WorkersInit /\ [][WorkersNext]_vars

\* ------------------------------------------- seeding, then live candles
\* strategy.donchian as the engine is seeded under: the detector's small
\* configuration, and two with consolidation_bars that make the history
\* asked for 200 and 214 candles long.
SeedConfigs ==
    {EngineConfig,
     [EngineConfig EXCEPT !.consolidationBars = 146, !.donchianLength = 30,
                          !.atrLength = 14],
     [EngineConfig EXCEPT !.consolidationBars = 160, !.donchianLength = 30,
                          !.atrLength = 14]}

\* The streamed candles of symbol s that its buffer holds.
LiveCount(s) ==
    Cardinality({i \in 1..Len(klineBuffer[s]) : klineBuffer[s][i].openTime >= 0})

\* processKline on the next closed candle of symbol s, by one klineProcessor
\* from updateKlineBuffer to its return.
ProcessKline(s) ==
    /\ ProcessAlive
    /\ engineTasks = "running"
    /\ LiveCount(s) < MaxLive
    /\ LET kline == Streamed(s, LiveCount(s))
           buffer == UpdateKlineBuffer(klineBuffer, kline)
           enough == Len(buffer[s]) >= GetRequiredBars(config)
           signal == IF enough THEN DetectSignal(s, buffer[s], config)
                     ELSE NoSignal
       IN /\ klineBuffer' = buffer
          /\ signalChan' = IF signal = NoSignal THEN signalChan
                           ELSE TrySend(signalChan, signal, SignalChanCap)
          /\ detectedSignals' =
                IF signal # NoSignal /\ Len(signalChan) < SignalChanCap
                THEN detectedSignals + 1 ELSE detectedSignals
          /\ processedKlines' = IF enough THEN processedKlines + 1
                                ELSE processedKlines
    /\ UNCHANGED <<config, engineChan, workerPc, workerKline, workerSignal,
                   savedSignals>>
    /\ UNCHANGED <<appVars, schedVars, alarmVars, wsVars, detectorVars,
                   storeVars, pollVars, renderVars, persistVars, donchianVars>>

\* NewDonchianEngine under one of the configurations, for two symbols.
SeedInit ==
    /\ AlarmAtRest
    /\ wsConfig = [symbols |-> <<"BTC-USDT", "ETH-USDT">>, interval |-> "1m"]
    /\ NewClient
    /\ config \in SeedConfigs
    /\ klineBuffer = [s \in WsSymbols |-> <<>>]
    /\ engineChan = <<>>
    /\ signalChan = <<>>
    /\ workerPc = [w \in 1..WorkerCount |-> "idle"]
    /\ workerKline = [w \in 1..WorkerCount |-> NoKline]
    /\ workerSignal = [w \in 1..WorkerCount |-> NoSignal]
    /\ processedKlines = 0
    /\ detectedSignals = 0
    /\ savedSignals = <<>>
    /\ DetectorAtRest

SeedNext ==
    \/ EngineCreate
    \/ EngineHistory
    \/ EngineConnect
    \/ EngineSubscribe
    \/ \E s \in WsSymbols : ProcessKline(s)

SpecSeed == SeedInit /\ [][SeedNext]_vars

\* ------------------------------------------------------ detector, by itself
\* A caller hands DetectSignal its snapshot.
Detect ==
    /\ detectPc = "ready"
    /\ detected' = DetectSignal(Last(snapshot).symbol, snapshot, config)
    /\ detectPc' = "done"
    /\ UNCHANGED <<snapshot, config, klineBuffer, engineChan, signalChan,
                   workerPc, workerKline, workerSignal, processedKlines,
                   detectedSignals, savedSignals>>
    /\ UNCHANGED <<alarmVars, wsVars, storeVars, schedVars, appVars, pollVars, renderVars, persistVars, donchianVars>>

DetectorInit ==
    /\ config \in DetectorConfigs
    /\ snapshot \in Histories(config)
    /\ detected = NoSignal
    /\ detectPc = "ready"
    /\ klineBuffer = [s \in WsSymbols |-> <<>>]
    /\ engineChan = <<>>
    /\ signalChan = <<>>
    /\ workerPc = [w \in 1..WorkerCount |-> "idle"]
    /\ workerKline = [w \in 1..WorkerCount |-> NoKline]
    /\ workerSignal = [w \in 1..WorkerCount |-> NoSignal]
    /\ processedKlines = 0
    /\ detectedSignals = 0
    /\ savedSignals = <<>>
    /\ wsConfig = [symbols |-> <<>>, interval |-> ""]
    /\ NewClient
    /\ AlarmAtRest

DetectorNext == Detect

SpecDetector == DetectorInit /\ [][DetectorNext]_vars

\* ------------------------------------------- the Donchian channel, by itself
\* Candles before the latest: any high and low, opening and closing at the
\* low.
ChannelCandles ==
    {Candle("BTC-USDT", 0, hl[2], hl[1], hl[2], hl[2], 0) :
        hl \in {x \in (1..MaxPrice) \X (1..MaxPrice) : x[2] <= x[1]}}
\* The latest candle: any high and low, any close (one outside of them
\* too), opening at the bottom or at the top of the prices.
LatestCandles ==
    {Candle("BTC-USDT", 0, o, hl[1], hl[2], c, 0) :
        hl \in {x \in (1..MaxPrice) \X (1..MaxPrice) : x[2] <= x[1]},
        c \in 1..MaxPrice, o \in {1, MaxPrice}}
\* donchian_length and donchian_offset.
ChannelLengths == {1, 2}
ChannelOffsets == {0, 1}

donchianFrame == <<alarmVars, wsVars, engineVars, detectorVars, storeVars,
                   schedVars, appVars, pollVars, renderVars, persistVars>>

\* DetectSignal's use of the calculator: Calculate, then CalculateBreakout
\* with the channel, on a buffer of up to MaxCandles candles.
DonchianCall ==
    /\ donchianIn = NoChannelCall
    /\ \E n \in 0..(MaxCandles - 1), length \in ChannelLengths,
          offset \in ChannelOffsets :
          \E earlier \in [1..n -> ChannelCandles], latest \in LatestCandles :
              /\ donchianIn' = [klines |-> earlier \o <<latest>>,
                                length |-> length, offset |-> offset]
              /\ donchianOut' =
                    [channel |-> DonchianCalculate(earlier \o <<latest>>,
                                                   length, offset),
                     breakout |->
                         CalculateBreakout(earlier \o <<latest>>,
                             DonchianCalculate(earlier \o <<latest>>,
                                               length, offset))]
    /\ UNCHANGED donchianFrame

DonchianInit ==
    /\ AlarmAtRest
    /\ wsConfig = [symbols |-> <<>>, interval |-> ""]
    /\ NewClient
    /\ NewDonchianEngine
    /\ DetectorAtRest

DonchianNext == DonchianCall

SpecDonchian == DonchianInit /\ [][DonchianNext]_vars

\* ------------------------------------------------ persisting the signals
\* The signals persisted: LONG or SHORT, of a whole-number strength.
PersistedSignals == [signalType : {"LONG", "SHORT"}, strength : {60, 90}]

\* UpdateStrategyPerformance, the record it creates when it found none.
FirstRow(signal) ==
    [found |-> TRUE, total |-> 1,
     long |-> IF signal.signalType = "LONG" THEN 1 ELSE 0,
     short |-> IF signal.signalType = "SHORT" THEN 1 ELSE 0,
     avg |-> Frac(signal.strength, 1)]

\* UpdateStrategyPerformance, the columns it writes over a row that is
\* stored, computed from the row it read.
UpdatedRow(stored, read, signal) ==
    [stored EXCEPT
        !.total = read.total + 1,
        !.long = IF signal.signalType = "LONG" THEN read.long + 1 ELSE @,
        !.short = IF signal.signalType = "SHORT" THEN read.short + 1 ELSE @,
        !.avg = FracMul(FracAdd(FracMul(read.avg, read.total, 1),
                                Frac(signal.strength, 1)),
                        1, read.total + 1)]

persistFrame == <<alarmVars, wsVars, engineVars, detectorVars, storeVars,
                  schedVars, appVars, pollVars, renderVars, donchianVars>>

\* processSignal: the goroutine that persists a signal is started.
ProcessSignal(t) ==
    /\ persistPc[t] = "none"
    /\ \A u \in 1..(t - 1) : persistPc[u] # "none"
    /\ \E signal \in PersistedSignals :
          persistSignal' = [persistSignal EXCEPT ![t] = signal]
    /\ persistPc' = [persistPc EXCEPT ![t] = "save"]
    /\ UNCHANGED <<perfRow, signalRows, persistRead, candleTask>>
    /\ UNCHANGED persistFrame

\* SaveTradingSignal: the signal's row is inserted.
PersistSave(t) ==
    /\ persistPc[t] = "save"
    /\ signalRows' = Append(signalRows, persistSignal[t])
    /\ persistPc' = [persistPc EXCEPT ![t] = "read"]
    /\ UNCHANGED <<perfRow, persistSignal, persistRead, candleTask>>
    /\ UNCHANGED persistFrame

\* UpdateStrategyPerformance: the SELECT of the day's row.
PersistRead(t) ==
    /\ persistPc[t] = "read"
    /\ persistRead' = [persistRead EXCEPT ![t] = perfRow]
    /\ persistPc' = [persistPc EXCEPT ![t] = "write"]
    /\ UNCHANGED <<perfRow, signalRows, persistSignal, candleTask>>
    /\ UNCHANGED persistFrame

\* UpdateStrategyPerformance: the INSERT when no row was found, which the
\* unique key on (symbol, date) refuses when a row has come to be; the
\* UPDATE by id otherwise.
PersistWrite(t) ==
    /\ persistPc[t] = "write"
    /\ IF ~persistRead[t].found
       THEN IF perfRow.found
            THEN /\ persistPc' = [persistPc EXCEPT ![t] = "error"]
                 /\ UNCHANGED perfRow
            ELSE /\ perfRow' = FirstRow(persistSignal[t])
                 /\ persistPc' = [persistPc EXCEPT ![t] = "done"]
       ELSE /\ perfRow' = UpdatedRow(perfRow, persistRead[t], persistSignal[t])
            /\ persistPc' = [persistPc EXCEPT ![t] = "done"]
    /\ UNCHANGED <<signalRows, persistSignal, persistRead, candleTask>>
    /\ UNCHANGED persistFrame

\* The signal consumer and its goroutines over an empty database.
PersistInit ==
    /\ AlarmAtRest
    /\ wsConfig = [symbols |-> <<>>, interval |-> ""]
    /\ NewClient
    /\ NewDonchianEngine
    /\ DetectorAtRest

PersistNext ==
    \E t \in 1..MaxPersist :
        \/ ProcessSignal(t)
        \/ PersistSave(t)
        \/ PersistRead(t)
        \/ PersistWrite(t)

SpecPersist == PersistInit /\ [][PersistNext]_vars

\* ------------------------------------------- persisting while the engine stops
\* signalProcessor, a goroutine of startWorkers, hands a signal to
\* processSignal, which starts the goroutine that persists it and returns.
SignalProcessorPersists(t) ==
    /\ ProcessAlive
    /\ engineTasks = "running"
    /\ ProcessSignal(t)

\* databasePersister's ticker fires and persistKlineData starts the goroutine
\* that saves the latest candles.
PersistKlineData ==
    /\ ProcessAlive
    /\ engineTasks = "running"
    /\ candleTask = "none"
    /\ candleTask' = "saving"
    /\ UNCHANGED <<perfRow, signalRows, persistPc, persistSignal, persistRead>>
    /\ UNCHANGED persistFrame

\* The goroutine of persistKlineData: SaveKLine for each candle, an error
\* logged at debug level, and the goroutine ends.
SaveKLines ==
    /\ ProcessAlive
    /\ candleTask = "saving"
    /\ candleTask' = "done"
    /\ UNCHANGED <<perfRow, signalRows, persistPc, persistSignal, persistRead>>
    /\ UNCHANGED persistFrame

\* A call of the persisting goroutine on the store that Manager.Close has
\* closed: database/sql refuses it. processSignal logs a failed
\* SaveTradingSignal and goes on to UpdateStrategyPerformance, whose First
\* returns the error.
PersistOnClosedStore(t) ==
    /\ ProcessAlive
    /\ stratPc = "returned"
    /\ persistPc[t] \in {"save", "read", "write"}
    /\ persistPc' = [persistPc EXCEPT
                        ![t] = IF persistPc[t] = "save" THEN "read" ELSE "error"]
    /\ UNCHANGED <<perfRow, signalRows, persistSignal, persistRead, candleTask>>
    /\ UNCHANGED persistFrame

\* The store is open to the persisting goroutines from NewDonchianEngine
\* until Stop closes it.
ShutdownInit == AppInit

ShutdownNext ==
    \/ Cancel
    \/ StrategySteps
    \/ PersistKlineData
    \/ SaveKLines
    \/ \E t \in 1..MaxPersist :
          \/ SignalProcessorPersists(t)
          \/ dbOpen /\ ProcessAlive /\ PersistSave(t)
          \/ dbOpen /\ ProcessAlive /\ PersistRead(t)
          \/ dbOpen /\ ProcessAlive /\ PersistWrite(t)
          \/ PersistOnClosedStore(t)

SpecShutdown == ShutdownInit /\ [][ShutdownNext]_vars

\* ------------------------------------------------- alarm pipeline properties
\* The symbols whose goroutine built an alert in the run at hand.
Alerted == {s \in AlarmSymbols : verdict[s] = "alert"}
\* Both prices of a goroutine are present.
HasPrices(s) == current[s] # NoPoint /\ past[s] # NoPoint
\* |current - past| / past * 100 against the threshold, on the goroutine's prices.
OverBy(s) == Abs(current[s].price - past[s].price) * 100 - Threshold * past[s].price

\* C1: any two alerts issued for one symbol are at least monitor_period apart,
\* whatever the configured period, ledger pruning included.
AlertsApartByPeriod ==
    \A s \in AlarmSymbols :
        \A i, j \in 1..Len(alertLog[s]) :
            i < j => alertLog[s][j] - alertLog[s][i] >= monitorPeriod

\* C2: an alert is built only on a change strictly over the threshold and only
\* when the cooldown check passed; a change of exactly the threshold builds
\* none; a change strictly over it, with both prices present and the symbol
\* eligible, builds one.
AlertIffOverThresholdAndEligible ==
    /\ \A s \in AlarmSymbols :
          /\ verdict[s] = "alert" =>
                /\ HasPrices(s)
                /\ OverBy(s) > 0
                /\ seen[s].at # NoTime
                /\ seen[s].last = NoTime \/ seen[s].at - seen[s].last > monitorPeriod
                /\ pending[s].symbol = s
                /\ pending[s].currentPrice = current[s].price
                /\ pending[s].pastPrice = past[s].price
          /\ verdict[s] = "below" => HasPrices(s) /\ OverBy(s) <= 0
          /\ verdict[s] = "cooldown" =>
                /\ HasPrices(s)
                /\ OverBy(s) > 0
                /\ seen[s].last # NoTime
                /\ seen[s].at - seen[s].last <= monitorPeriod
          /\ verdict[s] = "nodata" => ~HasPrices(s)
          /\ symPc[s] = "done" => verdict[s] # "none"
    /\ \A i \in 1..Len(alerts) :
          Abs(alerts[i].currentPrice - alerts[i].pastPrice) * 100
              > Threshold * alerts[i].pastPrice

\* C2 witness: in one run a symbol alerted and another, whose change is exactly
\* the threshold, did not.
AlertBesideExactThreshold ==
    \E s, u \in AlarmSymbols :
        /\ verdict[s] = "alert"
        /\ verdict[u] = "below"
        /\ HasPrices(u)
        /\ OverBy(u) = 0

\* C3: a run that built no alert calls the notifier not at all; a run that
\* built one calls SendAlert once; a run that built several calls
\* SendBatchAlerts once with every alert of the run, none lost in the fan-in.
OneCallPerRun ==
    /\ runPc \in {"send", "sent"} =>
          /\ Len(alerts) = Cardinality(Alerted)
          /\ \A s \in Alerted : \E i \in 1..Len(alerts) : alerts[i] = pending[s]
    /\ runPc = "sent" =>
          /\ Len(alerts) = 0 => calls = <<>>
          /\ Len(alerts) = 1 =>
                /\ Len(calls) = 1
                /\ calls[1].op = "SendAlert"
                /\ calls[1].alerts = alerts
          /\ Len(alerts) > 1 =>
                /\ Cardinality({i \in 1..Len(calls) : calls[i].op = "SendBatchAlerts"}) = 1
                /\ calls[1].op = "SendBatchAlerts"
                /\ calls[1].alerts = alerts
    /\ runPc # "sent" => calls = <<>>

\* C3 witness: a run in which every symbol alerted has made its batch call.
BatchCallMade ==
    /\ runPc = "sent"
    /\ Alerted = AlarmSymbols
    /\ Len(calls) > 0
    /\ calls[1].op = "SendBatchAlerts"

\* C4: when the HTTP send of a remote back-end fails, by transport or by the
\* service's answer, the same alerts are printed by the console notifier and
\* the call returns no error.
RemoteFailureFallsBackToConsole ==
    \A i \in 1..Len(calls) :
        (backend # "console" /\ calls[i].outcome # "ok") =>
            /\ calls[i].result.err = FALSE
            /\ Len(calls[i].result.remote) = 1
            /\ calls[i].result.remote[1].alerts = calls[i].alerts
            /\ calls[i].result.console =
                  <<[op |-> IF Len(calls[i].alerts) = 1
                            THEN "printAlert" ELSE "printBatchAlerts",
                     alerts |-> calls[i].alerts]>>

\* C4 witness: a DingTalk send failed in transport and the console printed the
\* alert instead.
DingTalkFailureFellBack ==
    /\ backend = "dingtalk"
    /\ \E i \in 1..Len(calls) :
          /\ calls[i].outcome = "transport_error"
          /\ calls[i].op = "SendAlert"
          /\ calls[i].result.console # <<>>

\* ------------------------------------------------------- streamer properties
\* The confirm field of a pushed row, as the exchange wrote it.
ConfirmField(row) == IF Len(row) >= 6 THEN row[6] ELSE "absent"
\* No row of the message is a closed candle.
NoClosedRow(msg) == \A i \in 1..Len(msg.data) : ConfirmField(msg.data[i]) # "1"
\* The candle was parsed from a closed row.
FromClosedRow(k) == k.open = ClosedOpen /\ k.close = ClosedPrice

AtMostOneCandlePerInterval == \A s \in WsSymbols : placed[s] <= 1

AtMostMaxFailedAttempts ==
    /\ [](/\ failedInARow <= MaxReconnectAttempts
          /\ rcPc \in {"wait", "resend"} => reconnectAttempts = failedInARow
          /\ rcPc = "subscribe" => failedInARow = 0
          /\ rcPc = "stopped" => failedInARow = MaxReconnectAttempts)
    /\ [][rcPc = "stopped" =>
              /\ rcPc' = "stopped"
              /\ dialled' = dialled
              /\ conn' \in {conn, 0}
              /\ failedInARow' = failedInARow]_vars

\* C8 witness: after a reconnect that succeeded, MaxReconnectAttempts dials
\* failed in a row and the loop has stopped.
StoppedAfterMaxFailures ==
    /\ rcPc = "stopped"
    /\ failedInARow = MaxReconnectAttempts
    /\ dialled >= 2

\* --------------------------------------------------------- engine properties
\* q begins with p.
IsPrefix(p, q) == Len(p) <= Len(q) /\ SubSeq(q, 1, Len(p)) = p
\* From ch to after, a channel of capacity cap lost nothing but its head to
\* a receiver, or kept all it held and took what fitted behind it.
KeepsQueued(ch, after, cap) ==
    \/ ch # <<>> /\ after = Tail(ch)
    \/ IsPrefix(ch, after) /\ Len(after) <= cap

\* C9: the streamer's output channel, the engine's candle channel and the
\* signal channel never hold more than their capacity; a step changes one of
\* them only by a receive at the head or by sends at the back that fit, so a
\* send on a full channel drops the item sent and keeps what is queued; and a
\* producer with something to send can always take its step, whatever the
\* channels hold.
SendsNeverBlockAndDropNewest ==
    /\ [](/\ Len(klineChan) <= KlineChanCap
          /\ Len(engineChan) <= EngineChanCap
          /\ Len(signalChan) <= SignalChanCap
          /\ Len(klineChan) > 0 => ENABLED KlineCollector
          /\ \A w \in 1..WorkerCount :
                workerPc[w] = "send" => ENABLED WorkerSend(w)
          /\ \A g \in 1..Len(processors) :
                tickers[processors[g].waiting].pending => ENABLED IntervalTick(g))
    /\ [][/\ KeepsQueued(klineChan, klineChan', KlineChanCap)
          /\ KeepsQueued(engineChan, engineChan', EngineChanCap)
          /\ KeepsQueued(signalChan, signalChan', SignalChanCap)]_vars

\* C9 witness: both symbols' candles were processed and each made a signal;
\* the signal channel, full, holds the first, nothing was received from it,
\* and the second was dropped uncounted.
SignalDroppedOnFullChannel ==
    /\ Len(signalChan) = SignalChanCap
    /\ savedSignals = <<>>
    /\ processedKlines = 2
    /\ detectedSignals = 1
    /\ \A w \in 1..WorkerCount : workerPc[w] = "idle"
    /\ \A s \in WsSymbols :
          /\ Len(klineBuffer[s]) = GetRequiredBars(config)
          /\ DetectSignal(s, klineBuffer[s], config) # NoSignal

\* The candles a symbol's buffer must hold before the detector looks at it.
EnoughBars ==
    config.consolidationBars + config.donchianLength + config.donchianOffset
        + config.atrLength + ATRSlopeWindow
\* The signals in flight or handed on.
SignalsOut ==
    {workerSignal[w] : w \in 1..WorkerCount} \cup Range(signalChan)
        \cup Range(savedSignals)

\* C11: a worker that finds fewer than consolidation_bars + donchian_length +
\* donchian_offset + atr_length + 45 candles in the buffer of its candle's
\* symbol, an unseeded buffer included, ends the candle's processing without
\* a signal: the signal channel is left as it was; and every signal there is
\* belongs to a symbol whose buffer holds at least that many candles.
ShortBufferEmitsNoSignal ==
    /\ [](\A sig \in SignalsOut \ {NoSignal} :
             Len(klineBuffer[sig.symbol]) >= EnoughBars)
    /\ [][\A w \in 1..WorkerCount :
             (/\ workerPc[w] = "detect"
              /\ workerPc'[w] # "detect"
              /\ Len(klineBuffer[workerKline[w].symbol]) < EnoughBars)
             => /\ workerPc'[w] = "idle"
                /\ workerSignal'[w] = NoSignal
                /\ signalChan' = signalChan
                /\ detectedSignals' = detectedSignals]_vars

\* C11 witness: every emitted candle has been processed, one of them into a
\* buffer that was unseeded, and no signal has come of it.
UnseededSymbolProcessedSilently ==
    /\ wsNow = MaxClock
    /\ klineChan = <<>>
    /\ engineChan = <<>>
    /\ \A w \in 1..WorkerCount : workerPc[w] = "idle"
    /\ \E s \in WsSymbols : Len(klineBuffer[s]) \in 1..KlineChanCap
    /\ signalChan = <<>>
    /\ savedSignals = <<>>
    /\ detectedSignals = 0

\* C12: in every symbol's buffer the candles stand in the order the streamer
\* emitted them, their open times never going back, however the workers
\* taking candles from the shared channel interleave.
BufferInEmissionOrder ==
    \A s \in WsSymbols :
       \A i, j \in 1..Len(klineBuffer[s]) :
          i < j => klineBuffer[s][i].openTime <= klineBuffer[s][j].openTime

\* C13: every symbol's buffer is strictly increasing in open time: no two
\* entries share an open time and none is older than the one before it.
BufferStrictlyIncreasing ==
    \A s \in WsSymbols :
       \A i \in 1..(Len(klineBuffer[s]) - 1) :
          klineBuffer[s][i].openTime < klineBuffer[s][i + 1].openTime

\* ---------------------------------------------------------- store properties
\* The point a call of Store put.
PointOf(e) == [price |-> e.price, timestamp |-> e.timestamp]
\* The smallest distance from an entry of the window to the target.
MinDiff(window, target) ==
    MinOf({Abs(window[i].timestamp - target) : i \in 1..Len(window)})

\* C14: whatever the interleaving of the callers of Store, every point put
\* by a call that has returned and still within the horizon is in its
\* symbol's window, and the lock is held by a caller inside Store or by none.
NoPutIsLost ==
    /\ \A e \in putLog :
          e.timestamp > now - WindowSize
             => PointOf(e) \in Range(priceHistory[e.symbol])
    /\ \A c \in Callers : storePc[c] \in {"create", "add"} <=> storeMutex = c

\* C14 witness: one caller's point is in the window of a symbol while the
\* other caller is inside Store for that symbol, having found its queue, and
\* the first waits for the lock with another point for it.
CallersContendForOneSymbol ==
    \E s \in AlarmSymbols :
       /\ storePc[1] = "lock" /\ storeArg[1].symbol = s
       /\ storePc[2] = "add" /\ storeArg[2].symbol = s /\ ~sawNil[2]
       /\ \E e \in putLog : e.symbol = s /\ e.price = PutPrice(1)
                              /\ PointOf(e) \in Range(priceHistory[s])

\* C15: every symbol's window is ordered non-decreasing by timestamp.
WindowsAreMonotone ==
    \A s \in AlarmSymbols :
       \A i, j \in 1..Len(priceHistory[s]) :
          i < j => priceHistory[s][i].timestamp <= priceHistory[s][j].timestamp

\* C16: the latest observation GetPriceData returns for a symbol is not
\* before any instant earlier than the timestamp of a put of that symbol
\* that had returned, whatever was put before it or since.
LatestNotBeforeAPut ==
    \A e \in pairResult.puts :
       /\ pairResult.current # NoPoint
       /\ pairResult.current.timestamp >= e.timestamp - 1

\* C17: the past GetPriceData returns is an observation of the window
\* nearest to now - monitor_period, and it is nil exactly when the nearest
\* one is further from that instant than twice the sampling interval.
PastIsNearestAroundPeriod ==
    (pairResult # NoPair /\ pairResult.window # <<>>) =>
       LET target == pairResult.at - monitorPeriod
           least == MinDiff(pairResult.window, target)
       IN /\ pairResult.past = NoPoint <=> least > 2 * SamplingInterval
          /\ pairResult.past # NoPoint =>
                /\ pairResult.past \in Range(pairResult.window)
                /\ Abs(pairResult.past.timestamp - target) = least

\* C18: when no observation of the window is older than monitor_period less
\* twice the sampling interval, GetPriceData returns a nil past.
YoungWindowHasNoPast ==
    (/\ pairResult # NoPair
     /\ pairResult.window # <<>>
     /\ \A i \in 1..Len(pairResult.window) :
           pairResult.at - pairResult.window[i].timestamp
              <= monitorPeriod - 2 * SamplingInterval)
       => pairResult.past = NoPoint

\* ------------------------------------------------------ scheduler properties
\* C19: the computation of the next analysis instant never fails, and the
\* instant it gives is strictly later than the time it was computed at, has
\* zero seconds, and has a minute of the hour that is a whole multiple of
\* monitor_period (minute 0 of the next hour after a roll-over included).
NextInstantIsAlignedAndLater ==
    /\ schedPc # "panicked"
    /\ nextTime # NoInstant =>
          /\ nextTime.ok
          /\ nextTime.at > calcAt
          /\ nextTime.at % 60 = 0
          /\ (((nextTime.at \div 60) % 60) * 60) % schedPeriod = 0

\* The latest instant up to t whose offset in its hour is a whole multiple
\* of monitor_period.
Slot(t) == t - ((t % 3600) % schedPeriod)

\* C26: no run of the analysis catches up on a boundary that was missed:
\* every run begins in the slot of an aligned boundary strictly later than
\* the boundary of the run before it, so no boundary has two runs.
EveryRunHasItsOwnBoundary ==
    \A k \in 2..Len(ranAt) : Slot(ranAt[k]) > Slot(ranAt[k - 1])

\* C20: once ctx is cancelled no run of runAnalysis begins; a scheduler
\* that is waiting when ctx is cancelled can return at once, whether its
\* timer is due or not; and a scheduler that is past Start's computation of
\* its first instant returns after the cancellation.
CancellationStopsTheScheduler ==
    /\ [][cancelled => runs' = runs]_vars
    /\ []((cancelled /\ schedPc = "first") => ENABLED FirstCancel)
    /\ []((cancelled /\ schedPc = "sleep") => ENABLED SleepCancel)
    /\ [][(cancelled /\ schedPc \in {"first", "sleep", "top"}
              /\ schedPc' # schedPc)
             => (schedPc' \in {"top", "returned"} /\ schedNow' = schedNow)]_vars
    /\ ((cancelled /\ schedPc \in {"first", "top", "run", "sleep"})
           ~> schedPc = "returned")

\* C20 witness: the scheduler has returned from the wait between two runs
\* with its timer due and ctx cancelled, one run made and none after.
ReturnedWithTimerDue ==
    /\ schedPc = "returned"
    /\ cancelled
    /\ runs = 1
    /\ calcAt > 0
    /\ TimerReady

\* ------------------------------------------------------ application properties
\* C21: a step in which the strategy engine fails to be created or started
\* leaves the scheduler's state alone, and a scheduler beside a failed
\* engine returns only on cancellation; the engine's goroutines stop running
\* only after the engine's own context was cancelled, whatever happens in
\* the alarm pipeline.
PipelinesAreIsolated ==
    /\ [][(stratPc # "failed" /\ stratPc' = "failed") => UNCHANGED schedVars]_vars
    /\ []((stratPc = "failed" /\ schedPc = "returned") => cancelled)
    /\ [][(engineTasks = "running" /\ engineTasks' # "running")
             => ~rootLive]_vars

\* The order DonchianEngine.Stop is read to work in: the wait for the
\* goroutines before the connection is closed.
WaitThenClose ==
    {<<"cancel", w, "close_conn", "close_store">> : w \in {"drained", "timeout"}}

\* The order of its code: the connection is closed before the wait.
CloseThenWait ==
    {<<"cancel", "close_conn", w, "close_store">> : w \in {"drained", "timeout"}}

FailedStartReleasesEverything ==
    stratPc = "failed" => (~dbOpen /\ ~wsOpen /\ ~rootLive)

\* ----------------------------------------------------------- poller properties
\* C22: a call of fetchAndStore makes at most 3 HTTP attempts; it ends in
\* failure only after 3 failed attempts, and then the store is as the call
\* found it and the loop waits for its ticker; a waiting poller can take its
\* next tick whatever the earlier fetches did; and the poller stops only
\* when its context is cancelled.
PollerOutlivesFailedFetches ==
    /\ [](httpCalls <= MaxAttempts)
    /\ [][(Len(tickLog') > Len(tickLog) /\ Last(tickLog') = "failed")
             => /\ httpCalls' = MaxAttempts
                /\ priceHistory' = storedBefore
                /\ pollPc' = "wait"]_vars
    /\ []((pollPc = "wait" /\ Len(tickLog) < MaxPolls) => ENABLED PollTick)
    /\ [][(pollPc # "stopped" /\ pollPc' = "stopped") => cancelled]_vars

\* C22 witness: a fetch that failed three times was followed by a fetch
\* that stored a price.
FetchedAfterAFailedTick ==
    /\ tickLog = <<"failed", "stored">>
    /\ priceHistory["ETH-USDT"] # <<>>
    /\ pollPc = "wait"

\* --------------------------------------------------------- notice properties
\* C23: in every body a back-end builds for a batch of more than one alert,
\* every alert listed with changePercent > 0 stands before every other one,
\* the risers stand in descending and the fallers in ascending order of
\* signed changePercent; the body lists alerts of the batch, all of them
\* when no group is longer than the body shows, and otherwise the alerts it
\* leaves out come after the listed ones of their group in that order; the
\* batch A +1, B -2, C +5, D -4 is listed as C, A, D, B.
BatchBodyGroupsRisersBeforeFallers ==
    \A n \in 1..Len(rendered) :
        LET listed == rendered[n].listed
            left == Range(batchIn) \ Range(listed)
        IN /\ Len(batchIn) > 1
           /\ \A i, j \in 1..Len(listed) :
                 i < j =>
                    /\ IsFaller(listed[i]) => IsFaller(listed[j])
                    /\ (IsRiser(listed[i]) /\ IsRiser(listed[j])) =>
                          ~MoreThan(listed[j].changePercent, listed[i].changePercent)
                    /\ (IsFaller(listed[i]) /\ IsFaller(listed[j])) =>
                          ~MoreThan(listed[i].changePercent, listed[j].changePercent)
                    /\ listed[i] # listed[j]
           /\ Range(listed) \subseteq Range(batchIn)
           /\ Len(batchIn) <= DingTalkMaxShow => left = {}
           /\ \A a \in left, i \in 1..Len(listed) :
                 /\ (IsRiser(a) /\ IsRiser(listed[i])) =>
                       ~MoreThan(a.changePercent, listed[i].changePercent)
                 /\ (IsFaller(a) /\ IsFaller(listed[i])) =>
                       ~MoreThan(listed[i].changePercent, a.changePercent)
           /\ batchIn = <<AlertA, AlertB, AlertC, AlertD>> =>
                 listed = <<AlertC, AlertA, AlertD, AlertB>>

\* C23 witness: the DingTalk back-end built the body of the batch A, B, C, D
\* and, its post failing, the console printed its own.
BatchOfFourRendered ==
    /\ batchIn = <<AlertA, AlertB, AlertC, AlertD>>
    /\ Len(rendered) = 2
    /\ rendered[1].builder = "buildBatchMarkdownContent"
    /\ rendered[1].listed = <<AlertC, AlertA, AlertD, AlertB>>
    /\ rendered[2].builder = "printBatchAlerts"

\* C25: right after Store returns, every observation of the symbol's window
\* is at most the window's age old.
PutLeavesNothingOverAge ==
    [][\A c \in Callers :
          StoreAdd(c) =>
              \A i \in 1..Len(priceHistory'[storeArg[c].symbol]) :
                  now' - priceHistory'[storeArg[c].symbol][i].timestamp <= WindowSize]_vars

\* C28: a batch of more than one alert is handed to SendBatchAlerts first;
\* when that call returns an error SendAlert follows once for every alert of
\* the batch, in the batch's order, whatever the earlier of these calls
\* returned; when it returns none no SendAlert follows.
FailedBatchFallsBackPerAlert ==
    (runPc = "sent" /\ Len(alerts) > 1) =>
        /\ Len(calls) >= 1
        /\ calls[1].op = "SendBatchAlerts"
        /\ calls[1].alerts = alerts
        /\ IF calls[1].result.err
           THEN /\ Len(calls) = 1 + Len(alerts)
                /\ \A i \in 1..Len(alerts) :
                      /\ calls[1 + i].op = "SendAlert"
                      /\ calls[1 + i].alerts = <<alerts[i]>>
           ELSE Len(calls) = 1

\* A batch send failed, the first per-alert send failed too, and the second
\* alert was sent all the same.
SentPastAFailedSingleSend ==
    /\ runPc = "sent"
    /\ Len(alerts) = 2
    /\ Len(calls) = 3
    /\ calls[1].result.err
    /\ calls[2].result.err
    /\ calls[3].op = "SendAlert"

\* C37: the ledger entry of an alert is written during the fan-out, before
\* the run comes to send, the send leaves the ledger alone whatever it
\* returns, and
\* a symbol whose alert was not delivered is not alerted again within
\* monitor_period of that alert.
FailedDispatchKeepsCooldown ==
    /\ [][\A s \in AlarmSymbols :
             AnalyzeRecord(s) => (runPc = "fanout" /\ alertHistory'[s] = now)]_vars
    /\ [][SendRun => alertHistory' = alertHistory]_vars
    /\ [](\A s \in AlarmSymbols :
             (verdict[s] = "alert" /\ failedAt[s] # NoTime
                 /\ seen[s].at > failedAt[s]) =>
                    seen[s].at - failedAt[s] >= monitorPeriod)

\* C38: a symbol over the threshold whose last alert lies exactly
\* monitor_period back, as in the run that follows the alerting run one
\* period later, passes the cooldown check and is alerted again.
EligibleAtExactlyThePeriod ==
    \A s \in AlarmSymbols :
        (seen[s].at # NoTime /\ seen[s].last # NoTime
            /\ seen[s].at - seen[s].last = monitorPeriod) =>
                verdict[s] = "alert"

\* C40: a buffer seeded with the full history response, before any streamed
\* candle, holds at least the bars the detector requires.
SeedCoversRequiredBars ==
    \A s \in WsSymbols :
        (LiveCount(s) = 0 /\ Len(klineBuffer[s]) = HistoryLimit(config)) =>
            Len(klineBuffer[s]) >= GetRequiredBars(config)

\* C29: the candle buffer of every symbol holds at most 200 candles, right
\* after the history was seeded as well, and the candles an append drops
\* are the oldest.
BufferNeverOverMax ==
    /\ [](\A s \in WsSymbols : Len(klineBuffer[s]) <= MaxBuffer)
    /\ [][\A s \in WsSymbols :
             ProcessKline(s) =>
                /\ klineBuffer'[s] # <<>>
                /\ Last(klineBuffer'[s]) = Streamed(s, LiveCount(s))
                /\ \E k \in 0..Len(klineBuffer[s]) :
                      klineBuffer'[s] =
                         Append(LastN(klineBuffer[s], k), Streamed(s, LiveCount(s)))]_vars

\* ------------------------------------------------------ reconnect properties
\* C32: the reconnect loop is never left at its send of a token to itself
\* with the token channel full, where nothing would ever take the token and
\* the loop would neither connect again nor count another failure.
ReconnectLoopNeverStuck ==
    ~(rcPc = "resend" /\ reconnectChan >= ReconnectChanCap)

\* C33: the disconnect handling that follows a failed read closes and forgets
\* only the connection the read failed on, never one dialled since.
DisconnectClosesOnlyItsConnection ==
    [][ReadError => (conn \in {0, readConn} /\ dead' = dead)]_vars

\* C34: a closed candle, known by its symbol and open time, is placed on the
\* output channel once at most, so the channel never holds it twice.
NoCandleTwiceOnTheChannel ==
    \A i, j \in 1..Len(klineChan) :
        (i # j /\ klineChan[i].symbol = klineChan[j].symbol)
            => klineChan[i].openTime # klineChan[j].openTime

\* C36: once Stop has closed the signal store, no persisting goroutine of
\* the signal consumer or of the candle persister is still at work.
PersistTasksOverBeforeClose ==
    stratPc = "returned" =>
        /\ \A t \in 1..MaxPersist : persistPc[t] \in {"none", "done", "error"}
        /\ candleTask # "saving"

\* C35: the snapshot a worker takes for the detector ends with the candle the
\* worker has just appended.
SnapshotEndsWithOwnCandle ==
    [][\A w \in 1..WorkerCount :
          WorkerDetect(w) =>
              Last(klineBuffer[workerKline[w].symbol]) = workerKline[w]]_vars

\* ------------------------------------------------------ channel properties
\* C31: the channel of length L and offset O is taken over exactly the L
\* candles that end O candles before the end of the buffer; with offset 0 a
\* latest candle with low <= close <= high gives no breakout.
ChannelSpansTheOffsetWindow ==
    donchianIn # NoChannelCall =>
        LET klines == donchianIn.klines
            window == (Len(klines) - donchianIn.length - donchianIn.offset + 1)
                          ..(Len(klines) - donchianIn.offset)
            channel == donchianOut.channel
            latest == Last(klines)
        IN /\ channel.ok <=> Len(klines) >= donchianIn.length + donchianIn.offset
           /\ channel.ok =>
                 /\ Cardinality(window) = donchianIn.length
                 /\ \A i \in window : /\ klines[i].high <= channel.upper
                                      /\ klines[i].low >= channel.lower
                 /\ \E i \in window : klines[i].high = channel.upper
                 /\ \E i \in window : klines[i].low = channel.lower
           /\ (/\ donchianIn.offset = 0
               /\ latest.low <= latest.close
               /\ latest.close <= latest.high) => donchianOut.breakout = ""

\* With offset 1 the latest candle closed over a channel that its own high
\* would have raised.
LatestLeftOutOfTheChannel ==
    /\ donchianIn.offset = 1
    /\ donchianOut.channel.ok
    /\ donchianOut.breakout = "LONG"
    /\ Last(donchianIn.klines).high > donchianOut.channel.upper

\* ------------------------------------------------------ persistence properties
\* C24: when every goroutine that persists a signal of the symbol and day
\* has ended, the day's row counts as many signals as were persisted, its
\* long and short counts add up to that total, and its average is the mean
\* of their strengths.
AggregateMatchesSignals ==
    (\A t \in 1..MaxPersist : persistPc[t] \in {"done", "error"}) =>
        /\ perfRow.found
        /\ perfRow.total = Len(signalRows)
        /\ perfRow.long + perfRow.short = perfRow.total
        /\ perfRow.avg = Frac(SumSeq([i \in 1..Len(signalRows) |-> signalRows[i].strength]),
                              Len(signalRows))

\* --------------------------------------------------------- detector properties
\* The candles DonchianCalculate takes the channel over.
ChannelWindow ==
    (Len(snapshot) - config.donchianLength - config.donchianOffset + 1)
        ..(Len(snapshot) - config.donchianOffset)

\* C10: a signal DetectSignal returns has a strength of at least
\* min_signal_strength; it is LONG or SHORT; LONG only when the last candle
\* of the snapshot closes above every high of the channel's candles and above
\* its own open, SHORT only when it closes below every low of them and below
\* its own open.
SignalsAreStrongAndDirected ==
    (detectPc = "done" /\ detected # NoSignal) =>
        /\ detected.signalStrength.num * config.minSignalStrength.den >=
              config.minSignalStrength.num * detected.signalStrength.den
        /\ detected.signalType \in {"LONG", "SHORT"}
        /\ detected.signalType = "LONG" =>
              /\ \A i \in ChannelWindow : Last(snapshot).close > snapshot[i].high
              /\ Last(snapshot).close > Last(snapshot).open
        /\ detected.signalType = "SHORT" =>
              /\ \A i \in ChannelWindow : Last(snapshot).close < snapshot[i].low
              /\ Last(snapshot).close < Last(snapshot).open

\* C39: a signal is returned only for a snapshot whose candle before the
\* last has a volume above zero, and its volumeRatio is a number.
SignalsHaveAVolumeRatio ==
    (detectPc = "done" /\ detected # NoSignal) =>
        /\ snapshot[Len(snapshot) - 1].volume > 0
        /\ detected.volumeRatio.kind = "number"

\* C10 witness: under min_signal_strength 60 a SHORT signal was returned.
ShortSignalReturned ==
    /\ detectPc = "done"
    /\ detected.signalType = "SHORT"
    /\ config.minSignalStrength = Frac(60, 1)

====
